---------------------------- MODULE Spec2Model ----------------------------
(***************************************************************************)
(* MantleYieldVault (contracts/contracts/MantleYieldVault.sol) with its    *)
(* IdleStrategy adapters and one adapter of arbitrary behaviour.           *)
(*                                                                         *)
(* One action is one external call (one transaction).  A call that         *)
(* reverts leaves the chain state as it was and only writes its record     *)
(* into the observation variable last.                                     *)
(***************************************************************************)
EXTENDS Integers, Sequences, FiniteSets, TLC

\* ------------------------------------------------------------------ bounds
MaxAssets == 3      \* asset tokens held by the vault and the adapters together
MaxShares == 3      \* vault shares in existence
MaxTrip == 10       \* asset tokens held by a vault with no adapter (SpecTrip)

\* -------------------------------------------------------------- identities
NULL  == "null"                      \* address(0)
VAULT == "vault"                     \* address(this)
OWNER == "owner"                     \* the deployer: owner and first operator
Holders  == {"u1", "u2"}             \* share holders, callers of the user functions
Callers  == {"owner", "op", "u1"}    \* callers of the restricted functions
IdleAdapters  == {"s1", "s2"}        \* IdleStrategy instances created for this vault
RogueAdapters == {"s3"}              \* an adapter that may fail or lie
Adapters == IdleAdapters \cup RogueAdapters
Accounts == {VAULT} \cup Adapters

REVERT == -1                         \* a view call that reverts

\* type(uint256).max: the unlimited allowance and the unbounded maximum of the
\* views, larger than every other quantity of the model.
MaxUint256 == 2147483647

VARIABLES
    paused,        \* Pausable._paused
    operator,      \* operator
    strategies,    \* address[] strategies
    isStrategy,    \* mapping isStrategy
    strategyCap,   \* mapping strategyCap
    tokenBal,      \* asset.balanceOf, of the vault and of every adapter
    down,          \* the adapters whose totalAssets() currently reverts
    balanceOf,     \* ERC20 share balances
    totalSupply,   \* ERC20 share supply
    allowance,     \* ERC20 share allowances: allowance[owner][spender]
    regOrder,      \* history: the registered adapters in the order of their addStrategy
    status,        \* ReentrancyGuard._status
    last           \* the record of the last call

vars == <<paused, operator, strategies, isStrategy, strategyCap, tokenBal, down,
          balanceOf, totalSupply, allowance, regOrder, status, last>>

\* ------------------------------------------------------------------- math
Min(a, b) == IF a < b THEN a ELSE b

RECURSIVE SumSeq(_, _)
SumSeq(f, s) == IF s = <<>> THEN 0 ELSE f[Head(s)] + SumSeq(f, Tail(s))

SeqToSet(s) == {s[i] : i \in 1..Len(s)}

\* OpenZeppelin Math.mulDiv(x, y, d, rounding): Floor or Ceil
MulDivFloor(x, y, d) == (x * y) \div d
MulDivCeil(x, y, d)  == ((x * y) \div d) + (IF (x * y) % d > 0 THEN 1 ELSE 0)

\* ------------------------------------------------------- adapter view calls
\* IStrategyAdapter(a).totalAssets() on balances b: IdleStrategy returns its token
\* balance; the arbitrary adapter reports its balance or reverts.
AdapterTotalAssets(a, b, dn) == IF a \in dn THEN REVERT ELSE b[a]

\* totalAssets(): idle balance plus every registered adapter's totalAssets();
\* it reverts when one of these calls reverts.
TotalAssetsOn(strats, b, dn) ==
    IF \E i \in 1..Len(strats) : AdapterTotalAssets(strats[i], b, dn) = REVERT
    THEN REVERT
    ELSE b[VAULT] + SumSeq(b, strats)

totalAssets == TotalAssetsOn(strategies, tokenBal, down)

\* ERC4626._convertToShares / _convertToAssets with _decimalsOffset() = 0,
\* on a pool of ta assets and ts shares.
\* Variant: a decimals offset of one digit, ten virtual shares.
ConvertToSharesFloor_Offset(assets, ta, ts) == MulDivFloor(assets, ts + 10, ta + 1)
ConvertToSharesFloor(assets, ta, ts) == MulDivFloor(assets, ts + 1, ta + 1)
ConvertToSharesCeil(assets, ta, ts)  == MulDivCeil(assets, ts + 1, ta + 1)
\* Variant: the conversion without the virtual share and the virtual asset.
ConvertToAssetsFloor_Plain(shs, ta, ts) == IF ts = 0 THEN shs ELSE MulDivFloor(shs, ta, ts)
ConvertToAssetsFloor(shs, ta, ts)    == MulDivFloor(shs, ta + 1, ts + 1)
ConvertToAssetsCeil(shs, ta, ts)     == MulDivCeil(shs, ta + 1, ts + 1)

\* Variant: the shares of a deposit rounded up.
previewDeposit_Ceil(assets, ta, ts) == ConvertToSharesCeil(assets, ta, ts)
previewDeposit(assets, ta, ts)  == ConvertToSharesFloor(assets, ta, ts)
\* Variant: the assets of a mint rounded down.
previewMint_Floor(shs, ta, ts) == ConvertToAssetsFloor(shs, ta, ts)
previewMint(shs, ta, ts)        == ConvertToAssetsCeil(shs, ta, ts)
previewWithdraw(assets, ta, ts) == ConvertToSharesCeil(assets, ta, ts)
previewRedeem(shs, ta, ts)      == ConvertToAssetsFloor(shs, ta, ts)


\* --------------------------------------------------- adapter state changes
\* What the arbitrary adapter does when its withdraw or deposit is called.
Behaviours == {"honest", "revert", "short", "lie", "over", "leak"}

\* Variant: an IdleStrategy whose withdraw keeps one token back when asked for
\* more than one.
IdleWithdraw_KeepsOne(a, amount, b) ==
    IF amount = 0
    THEN [rev |-> TRUE, ret |-> 0, bal |-> b]
    ELSE LET actualAmount == IF amount > 1 THEN Min(amount, b[a]) - 1 ELSE Min(amount, b[a])
         IN  [rev |-> FALSE, ret |-> actualAmount,
              bal |-> [b EXCEPT ![a] = @ - actualAmount, ![VAULT] = @ + actualAmount]]
\* IdleStrategy.withdraw(amount), called by the vault, on balances b:
\* [rev, ret, bal]: reverted, the returned actualAmount, the balances after.
IdleWithdraw(a, amount, b) ==
    IF amount = 0
    THEN [rev |-> TRUE, ret |-> 0, bal |-> b]
    ELSE LET actualAmount == IF amount > b[a] THEN b[a] ELSE amount
         IN  [rev |-> FALSE, ret |-> actualAmount,
              bal |-> [b EXCEPT ![a] = @ - actualAmount, ![VAULT] = @ + actualAmount]]

\* The arbitrary adapter's withdraw(amount): it may revert, release less than it
\* holds, report a release it did not make, report more than asked, or lose a token.
RogueWithdraw(a, amount, b, beh) ==
    LET full == Min(amount, b[a])
        sent == CASE beh = "honest" -> full
                  [] beh = "short"  -> IF full > 0 THEN full - 1 ELSE 0
                  [] beh = "lie"    -> 0
                  [] beh = "over"   -> full
                  [] beh = "leak"   -> full
                  [] OTHER          -> 0
        ret  == CASE beh = "lie"  -> amount
                  [] beh = "over" -> amount + 1
                  [] OTHER        -> sent
        lost == IF beh = "leak" /\ b[a] > sent THEN 1 ELSE 0
    IN  IF beh = "revert"
        THEN [rev |-> TRUE, ret |-> 0, bal |-> b]
        ELSE [rev |-> FALSE, ret |-> ret,
              bal |-> [b EXCEPT ![a] = @ - sent - lost, ![VAULT] = @ + sent]]

AdapterWithdraw(a, amount, b, beh) ==
    IF a \in IdleAdapters THEN IdleWithdraw(a, amount, b)
    ELSE RogueWithdraw(a, amount, b, beh)

\* Variant: an IdleStrategy whose deposit pulls one token less than it is given.
IdleDeposit_LeavesOne(a, amount, b) ==
    IF amount = 0 \/ b[VAULT] < amount
    THEN [rev |-> TRUE, bal |-> b]
    ELSE [rev |-> FALSE,
          bal |-> [b EXCEPT ![VAULT] = @ - (amount - 1), ![a] = @ + (amount - 1)]]
\* IdleStrategy.deposit(amount), called by the vault that approved amount:
\* [rev, bal].
IdleDeposit(a, amount, b) ==
    IF amount = 0 \/ b[VAULT] < amount
    THEN [rev |-> TRUE, bal |-> b]
    ELSE [rev |-> FALSE,
          bal |-> [b EXCEPT ![VAULT] = @ - amount, ![a] = @ + amount]]

\* The arbitrary adapter's deposit(amount): it pulls at most the approved amount.
RogueDeposit(a, amount, b, beh) ==
    LET full   == Min(amount, b[VAULT])
        pulled == CASE beh \in {"honest", "over", "leak"} -> full
                    [] beh = "short" -> IF full > 0 THEN full - 1 ELSE 0
                    [] OTHER         -> 0
        lost   == IF beh = "leak" /\ b[a] + pulled > 0 THEN 1 ELSE 0
    IN  IF beh = "revert"
        THEN [rev |-> TRUE, bal |-> b]
        ELSE [rev |-> FALSE,
              bal |-> [b EXCEPT ![VAULT] = @ - pulled, ![a] = @ + pulled - lost]]

AdapterDeposit(a, amount, b, beh) ==
    IF a \in IdleAdapters THEN IdleDeposit(a, amount, b)
    ELSE RogueDeposit(a, amount, b, beh)

\* ------------------------------------------- IdleStrategy's external calls
\* Variant: the modifier lets every caller through.
onlyVault_Anyone(caller) == TRUE
\* IdleStrategy: modifier onlyVault
onlyVault(caller) == caller = VAULT

\* Variant: withdraw that refuses a request above its balance.
strategyWithdraw_Strict(caller, a, amount, b) ==
    IF ~onlyVault(caller) THEN [res |-> "OnlyVault"]
    ELSE IF amount = 0 THEN [res |-> "ZeroAmount"]
    ELSE IF amount > b[a] THEN [res |-> "TransferFailed"]
    ELSE [res |-> "ok", ret |-> amount, bal |-> IdleWithdraw(a, amount, b).bal]
\* IdleStrategy(a).deposit(amount) by caller, who has approved amount: the
\* error, or "ok" with the balances after.
strategyDeposit(caller, a, amount, b) ==
    IF ~onlyVault(caller) THEN [res |-> "OnlyVault"]
    ELSE IF amount = 0 THEN [res |-> "ZeroAmount"]
    ELSE IF IdleDeposit(a, amount, b).rev THEN [res |-> "TransferFailed"]
    ELSE [res |-> "ok", bal |-> IdleDeposit(a, amount, b).bal]
\* IdleStrategy(a).withdraw(amount) by caller: the error, or "ok" with the
\* returned actualAmount and the balances after.
strategyWithdraw(caller, a, amount, b) ==
    IF ~onlyVault(caller) THEN [res |-> "OnlyVault"]
    ELSE IF amount = 0 THEN [res |-> "ZeroAmount"]
    ELSE [res |-> "ok", ret |-> IdleWithdraw(a, amount, b).ret,
          bal |-> IdleWithdraw(a, amount, b).bal]

\* ------------------------------------------------- the withdrawal cascade
\* Variant: each adapter is asked for the whole remaining amount.
CascadeStep_AsksAll(a, c, dn, beh) ==
    LET strategyBalance == AdapterTotalAssets(a, c.bal, dn)
    IN  IF strategyBalance = REVERT
        THEN [c EXCEPT !.failed = Append(@, a)]
        ELSE IF strategyBalance > 0
        THEN LET toWithdraw == c.remaining
                 w == AdapterWithdraw(a, toWithdraw, c.bal, beh)
             IN  IF w.rev
                 THEN [c EXCEPT !.asked = Append(@, a), !.amounts = Append(@, toWithdraw),
                                !.failed = Append(@, a)]
                 ELSE IF w.ret > c.remaining
                 THEN [c EXCEPT !.asked = Append(@, a), !.amounts = Append(@, toWithdraw),
                                !.panic = TRUE]
                 ELSE [c EXCEPT !.asked = Append(@, a), !.amounts = Append(@, toWithdraw),
                                !.bal = w.bal, !.remaining = @ - w.ret]
        ELSE c
\* Variant: a revert of the adapter's withdraw aborts the loop.
CascadeStep_Abort(a, c, dn, beh) ==
    LET strategyBalance == AdapterTotalAssets(a, c.bal, dn)
    IN  IF strategyBalance = REVERT
        THEN [c EXCEPT !.failed = Append(@, a)]
        ELSE IF strategyBalance > 0
        THEN LET toWithdraw == IF c.remaining > strategyBalance
                               THEN strategyBalance ELSE c.remaining
                 w == AdapterWithdraw(a, toWithdraw, c.bal, beh)
             IN  IF w.rev \/ w.ret > c.remaining
                 THEN [c EXCEPT !.asked = Append(@, a), !.amounts = Append(@, toWithdraw),
                                !.panic = TRUE]
                 ELSE [c EXCEPT !.asked = Append(@, a), !.amounts = Append(@, toWithdraw),
                                !.bal = w.bal, !.remaining = @ - w.ret]
        ELSE c
\* One iteration of the loop of _withdrawFromStrategies on the loop state c:
\* [bal, remaining, asked, amounts, failed, panic]: the adapters whose withdraw
\* was called and the amounts they were asked for, in order.
CascadeStep(a, c, dn, beh) ==
    LET strategyBalance == AdapterTotalAssets(a, c.bal, dn)
    IN  IF strategyBalance = REVERT
        THEN [c EXCEPT !.failed = Append(@, a)]
        ELSE IF strategyBalance > 0
        THEN LET toWithdraw == IF c.remaining > strategyBalance
                               THEN strategyBalance ELSE c.remaining
                 w == AdapterWithdraw(a, toWithdraw, c.bal, beh)
             IN  IF w.rev
                 THEN [c EXCEPT !.asked = Append(@, a), !.amounts = Append(@, toWithdraw),
                                !.failed = Append(@, a)]
                 ELSE IF w.ret > c.remaining
                 THEN [c EXCEPT !.asked = Append(@, a), !.amounts = Append(@, toWithdraw),
                                !.panic = TRUE]
                 ELSE [c EXCEPT !.asked = Append(@, a), !.amounts = Append(@, toWithdraw),
                                !.bal = w.bal, !.remaining = @ - w.ret]
        ELSE c

RECURSIVE CascadeFrom(_, _, _, _, _)
CascadeFrom(i, strats, c, dn, beh) ==
    IF i > Len(strats) \/ c.remaining = 0 \/ c.panic
    THEN c
    ELSE CascadeFrom(i + 1, strats, CascadeStep(strats[i], c, dn, beh), dn, beh)

\* Variant: the loop walking the array from its last element.
WithdrawFromStrategies_LastFirst(amount, strats, b, dn, beh) ==
    CascadeFrom(1, [i \in 1..Len(strats) |-> strats[Len(strats) + 1 - i]],
                [bal |-> b, remaining |-> amount, asked |-> <<>>, amounts |-> <<>>,
                 failed |-> <<>>, panic |-> FALSE],
                dn, beh)

\* _withdrawFromStrategies(amount) on balances b; actualWithdrawn is
\* amount - remaining.
WithdrawFromStrategies(amount, strats, b, dn, beh) ==
    CascadeFrom(1, strats,
                [bal |-> b, remaining |-> amount, asked |-> <<>>, amounts |-> <<>>,
                 failed |-> <<>>, panic |-> FALSE],
                dn, beh)

NoCascade(b) ==
    [bal |-> b, remaining |-> 0, asked |-> <<>>, amounts |-> <<>>, failed |-> <<>>,
     panic |-> FALSE]


\* ------------------------------------------------------- the vault's calls
\* A handler is an operator from the state before the call (and the pause flag p
\* it reads) to the call's outcome: res = "ok" with the state after, or the error.
Fail(err) == [res |-> err]

\* The modifiers that read the pause flag: deposit, mint and rebalance carry
\* whenNotPaused (Pausable: EnforcedPause), withdraw and redeem carry none.
whenNotPaused(p) == IF p THEN "Paused" ELSE "ok"
\* Variant: deposit without the whenNotPaused modifier.
DepositGate_Open(p) == "ok"
DepositGate(p)   == whenNotPaused(p)
MintGate(p)      == whenNotPaused(p)
RebalanceGate(p) == whenNotPaused(p)
\* Variant: withdraw carrying whenNotPaused as deposit does.
WithdrawGate_Paused(p) == whenNotPaused(p)
WithdrawGate(p)  == "ok"
RedeemGate(p)    == "ok"

\* Variant: a guard that never refuses.
nonReentrant_Off(st) == "ok"
\* modifier nonReentrant (ReentrancyGuard: ReentrancyGuardReentrantCall) refuses
\* the call while a guarded function of the vault is running.
nonReentrant(st) == IF st = "ENTERED" THEN "ReentrancyGuardReentrantCall" ELSE "ok"
\* Variant: a modifier that lets every caller through.
onlyOperator_Anyone(caller) == TRUE
\* modifier onlyOperator
onlyOperator(caller) == caller = operator \/ caller = OWNER
\* Variant: the operator passes for the owner.
onlyOwner_OrOperator(caller) == caller = OWNER \/ caller = operator
\* Ownable.onlyOwner
onlyOwner(caller) == caller = OWNER

\* Variant: the burn does not look at the owner's balance.
SpendAndBurnCheck_AllowanceOnly(caller, owner_, value) ==
    IF caller # owner_ /\ allowance[owner_][caller] < value THEN "AllowanceExceeded"
    ELSE "ok"
\* ERC20._spendAllowance(owner_, spender, value) on allowances al, then
\* ERC20._burn(owner_, value): the error, or "ok".
SpendAndBurnCheck(caller, owner_, value) ==
    IF caller # owner_ /\ allowance[owner_][caller] < value THEN "AllowanceExceeded"
    ELSE IF balanceOf[owner_] < value THEN "InsufficientShares"
    ELSE "ok"

\* Variant: a spent allowance stays what it was.
SpendAllowance_Keeps(caller, owner_, value) == allowance

\* An allowance of type(uint256).max is not decreased.
SpendAllowance(caller, owner_, value) ==
    IF caller # owner_ /\ allowance[owner_][caller] < MaxUint256
    THEN [allowance EXCEPT ![owner_][caller] = @ - value]
    ELSE allowance

\* The functions that carry nonReentrant, and what the modifiers of op answer a
\* caller, in the order they are written: "ok" lets the body run.
GuardedOps == {"deposit", "mint", "withdraw", "redeem", "rebalance"}

Modifiers(op, st, p, caller) ==
    CASE op = "deposit"   -> IF DepositGate(p) # "ok" THEN DepositGate(p) ELSE nonReentrant(st)
      [] op = "mint"      -> IF MintGate(p) # "ok" THEN MintGate(p) ELSE nonReentrant(st)
      [] op = "withdraw"  -> IF WithdrawGate(p) # "ok" THEN WithdrawGate(p) ELSE nonReentrant(st)
      [] op = "redeem"    -> IF RedeemGate(p) # "ok" THEN RedeemGate(p) ELSE nonReentrant(st)
      [] op = "rebalance" -> IF ~onlyOperator(caller) THEN "NotOperator"
                             ELSE IF RebalanceGate(p) # "ok" THEN RebalanceGate(p)
                             ELSE nonReentrant(st)
\* deposit(assets, receiver): ERC4626.deposit mints previewDeposit(assets) and
\* pulls assets from the caller into the vault.
deposit(p, caller, assets, receiver) ==
    IF DepositGate(p) # "ok" THEN Fail(DepositGate(p))
    ELSE IF assets = 0 THEN Fail("ZeroAmount")
    ELSE IF receiver = NULL THEN Fail("ZeroAddress")
    ELSE IF totalAssets = REVERT THEN Fail("AdapterReverted")
    ELSE LET shs == previewDeposit(assets, totalAssets, totalSupply)
         IN  [res |-> "ok",
              bal |-> [tokenBal EXCEPT ![VAULT] = @ + assets],
              balanceOf |-> [balanceOf EXCEPT ![receiver] = @ + shs],
              totalSupply |-> totalSupply + shs,
              allowance |-> allowance,
              want |-> assets, delivered |-> assets, burned |-> shs,
              released |-> 0, asked |-> <<>>, failed |-> <<>>]

\* mint(shares, receiver): ERC4626.mint pulls previewMint(shares) from the caller.
mint(p, caller, shs, receiver) ==
    IF MintGate(p) # "ok" THEN Fail(MintGate(p))
    ELSE IF shs = 0 THEN Fail("ZeroAmount")
    ELSE IF receiver = NULL THEN Fail("ZeroAddress")
    ELSE IF totalAssets = REVERT THEN Fail("AdapterReverted")
    ELSE LET assets == previewMint(shs, totalAssets, totalSupply)
         IN  [res |-> "ok",
              bal |-> [tokenBal EXCEPT ![VAULT] = @ + assets],
              balanceOf |-> [balanceOf EXCEPT ![receiver] = @ + shs],
              totalSupply |-> totalSupply + shs,
              allowance |-> allowance,
              want |-> assets, delivered |-> assets, burned |-> shs,
              released |-> 0, asked |-> <<>>, failed |-> <<>>]

\* Variant: shares computed from the requested amount.
SharesBasis_Requested(assets, actualAssets) == assets
\* The amount whose shares withdraw burns: the actual amount, not the requested.
SharesBasis(assets, actualAssets) == actualAssets

\* Variant: shares computed with convertToShares, which rounds down.
WithdrawShares_Floor(actualAssets, ta, ts) == ConvertToSharesFloor(actualAssets, ta, ts)
\* shares = previewWithdraw(actualAssets), on the pool at that moment.
WithdrawShares(actualAssets, ta, ts) == previewWithdraw(actualAssets, ta, ts)

\* Variant: withdraw sending everything available, not at most the request.
WithdrawActual_All(assets, totalAvailable) == totalAvailable
\* The amount withdraw delivers, of assets requested and totalAvailable found.
WithdrawActual(assets, totalAvailable) ==
    IF totalAvailable < assets THEN totalAvailable ELSE assets

\* withdraw(assets, receiver, owner_)
withdraw(p, caller, assets, receiver, owner_, beh) ==
    IF WithdrawGate(p) # "ok" THEN Fail(WithdrawGate(p))
    ELSE IF assets = 0 THEN Fail("ZeroAmount")
    ELSE IF receiver = NULL THEN Fail("ZeroAddress")
    ELSE LET idleBalance == tokenBal[VAULT]
             c == IF idleBalance < assets
                  THEN WithdrawFromStrategies(assets - idleBalance, strategies,
                                              tokenBal, down, beh)
                  ELSE NoCascade(tokenBal)
             fromStrategies == IF idleBalance < assets
                               THEN (assets - idleBalance) - c.remaining ELSE 0
             totalAvailable == idleBalance + fromStrategies
             actualAssets == WithdrawActual(assets, totalAvailable)
             ta  == TotalAssetsOn(strategies, c.bal, down)
             shs == WithdrawShares(SharesBasis(assets, actualAssets), ta, totalSupply)
         IN  IF c.panic THEN Fail("Panic")
             ELSE IF ta = REVERT THEN Fail("AdapterReverted")
             ELSE IF SpendAndBurnCheck(caller, owner_, shs) # "ok"
             THEN Fail(SpendAndBurnCheck(caller, owner_, shs))
             ELSE IF c.bal[VAULT] < actualAssets THEN Fail("TransferFailed")
             ELSE [res |-> "ok",
                   bal |-> [c.bal EXCEPT ![VAULT] = @ - actualAssets],
                   balanceOf |-> [balanceOf EXCEPT ![owner_] = @ - shs],
                   totalSupply |-> totalSupply - shs,
                   allowance |-> SpendAllowance(caller, owner_, shs),
                   want |-> assets, delivered |-> actualAssets, burned |-> shs,
                   released |-> fromStrategies, asked |-> c.asked,
                   failed |-> c.failed]

\* Variant: the assets of a redeem rounded up.
RedeemAssets_Ceil(shs, ta, ts) == ConvertToAssetsCeil(shs, ta, ts)
\* assets = previewRedeem(shares), on the pool before the cascade.
RedeemAssets(shs, ta, ts) == previewRedeem(shs, ta, ts)

\* redeem(shares, receiver, owner_)
redeem(p, caller, shs, receiver, owner_, beh) ==
    IF RedeemGate(p) # "ok" THEN Fail(RedeemGate(p))
    ELSE IF shs = 0 THEN Fail("ZeroAmount")
    ELSE IF receiver = NULL THEN Fail("ZeroAddress")
    ELSE IF totalAssets = REVERT THEN Fail("AdapterReverted")
    ELSE LET assets == RedeemAssets(shs, totalAssets, totalSupply)
             idleBalance == tokenBal[VAULT]
             c == IF idleBalance < assets
                  THEN WithdrawFromStrategies(assets - idleBalance, strategies,
                                              tokenBal, down, beh)
                  ELSE NoCascade(tokenBal)
             fromStrategies == IF idleBalance < assets
                               THEN (assets - idleBalance) - c.remaining ELSE 0
             totalAvailable == idleBalance + fromStrategies
             actual == IF totalAvailable < assets THEN totalAvailable ELSE assets
         IN  IF caller # owner_ /\ allowance[owner_][caller] < shs
             THEN Fail("AllowanceExceeded")
             ELSE IF c.panic THEN Fail("Panic")
             ELSE IF balanceOf[owner_] < shs THEN Fail("InsufficientShares")
             ELSE IF c.bal[VAULT] < actual THEN Fail("TransferFailed")
             ELSE [res |-> "ok",
                   bal |-> [c.bal EXCEPT ![VAULT] = @ - actual],
                   balanceOf |-> [balanceOf EXCEPT ![owner_] = @ - shs],
                   totalSupply |-> totalSupply - shs,
                   allowance |-> SpendAllowance(caller, owner_, shs),
                   want |-> assets, delivered |-> actual, burned |-> shs,
                   released |-> fromStrategies, asked |-> c.asked,
                   failed |-> c.failed]


\* IStrategyAdapter(a).asset(): the adapters of Adapters hold the vault's asset,
\* the adapter "sx" holds another one.
ForeignAdapters == {"sx"}
AssetMatches(a) == a \in Adapters

\* Variant: rebalance without its final conservation check.
ConservationOk_Unchecked(totalBefore, totalAfter) == TRUE
\* The check that ends rebalance: totalAfter == totalBefore.
ConservationOk(totalBefore, totalAfter) == totalAfter = totalBefore

\* Variant: a cap check on the destination's balance alone.
ExceedsCap_BalanceOnly(toBalance, amount, cap) == toBalance > cap
\* Variant: rebalance without its cap check.
ExceedsCap_Unchecked(toBalance, amount, cap) == FALSE
\* The cap check of rebalance: toBalance + amount > strategyCap[toStrategy].
ExceedsCap(toBalance, amount, cap) == toBalance + amount > cap
\* rebalance(fromStrategy, toStrategy, amount)
rebalance(p, caller, fromStrategy, toStrategy, amount, beh) ==
    IF ~onlyOperator(caller) THEN Fail("NotOperator")
    ELSE IF RebalanceGate(p) # "ok" THEN Fail(RebalanceGate(p))
    ELSE IF amount = 0 THEN Fail("ZeroAmount")
    ELSE IF fromStrategy \notin Adapters \/ ~isStrategy[fromStrategy]
    THEN Fail("InvalidStrategy")
    ELSE IF toStrategy \notin Adapters \/ ~isStrategy[toStrategy]
    THEN Fail("InvalidStrategy")
    ELSE IF fromStrategy = toStrategy THEN Fail("SameStrategy")
    ELSE LET fromBalance == AdapterTotalAssets(fromStrategy, tokenBal, down)
             toBalance   == AdapterTotalAssets(toStrategy, tokenBal, down)
             totalBefore == totalAssets
             w == AdapterWithdraw(fromStrategy, amount, tokenBal, beh)
             d == AdapterDeposit(toStrategy, w.ret, w.bal, beh)
             totalAfter == TotalAssetsOn(strategies, d.bal, down)
         IN  IF fromBalance = REVERT THEN Fail("AdapterReverted")
             ELSE IF fromBalance < amount THEN Fail("InsufficientStrategyBalance")
             ELSE IF toBalance = REVERT THEN Fail("AdapterReverted")
             ELSE IF ExceedsCap(toBalance, amount, strategyCap[toStrategy])
             THEN Fail("ExceedsAllocationCap")
             ELSE IF totalBefore = REVERT THEN Fail("AdapterReverted")
             ELSE IF w.rev THEN Fail("AdapterReverted")
             ELSE IF d.rev THEN Fail("AdapterReverted")
             ELSE IF ~ConservationOk(totalBefore, totalAfter)
             THEN Fail("AssetConservationViolated")
             ELSE [res |-> "ok", bal |-> d.bal, withdrawn |-> w.ret,
                   slippage |-> w.ret < amount]

\* The array after removeStrategy's loop: the first occurrence of strategy is
\* overwritten with the last element and the array is popped.
RECURSIVE IndexOf(_, _, _)
IndexOf(s, x, i) == IF i > Len(s) THEN 0 ELSE IF s[i] = x THEN i ELSE IndexOf(s, x, i + 1)

\* Variant: the array loses its last element, whichever adapter is removed.
RemoveFromArray_PopsLast(s, strategy) == SubSeq(s, 1, Len(s) - 1)
RemoveFromArray(s, strategy) ==
    LET i == IndexOf(s, strategy, 1)
    IN  IF i = 0 THEN s
        ELSE SubSeq([s EXCEPT ![i] = s[Len(s)]], 1, Len(s) - 1)

\* Variant: the new adapter goes to the front of the array.
addStrategy_Prepends(caller, strategy, cap) ==
    IF ~onlyOwner(caller) THEN Fail("NotOwner")
    ELSE IF strategy = NULL THEN Fail("InvalidStrategy")
    ELSE IF strategy \in Adapters /\ isStrategy[strategy] THEN Fail("StrategyAlreadyExists")
    ELSE IF cap = 0 THEN Fail("ZeroStrategyCap")
    ELSE IF ~AssetMatches(strategy) THEN Fail("AssetMismatch")
    ELSE [res |-> "ok",
          strategies |-> <<strategy>> \o strategies,
          isStrategy |-> [isStrategy EXCEPT ![strategy] = TRUE],
          strategyCap |-> [strategyCap EXCEPT ![strategy] = cap]]
\* addStrategy(strategy, cap)
addStrategy(caller, strategy, cap) ==
    IF ~onlyOwner(caller) THEN Fail("NotOwner")
    ELSE IF strategy = NULL THEN Fail("InvalidStrategy")
    ELSE IF strategy \in Adapters /\ isStrategy[strategy] THEN Fail("StrategyAlreadyExists")
    ELSE IF cap = 0 THEN Fail("ZeroStrategyCap")
    ELSE IF ~AssetMatches(strategy) THEN Fail("AssetMismatch")
    ELSE [res |-> "ok",
          strategies |-> Append(strategies, strategy),
          isStrategy |-> [isStrategy EXCEPT ![strategy] = TRUE],
          strategyCap |-> [strategyCap EXCEPT ![strategy] = cap]]

\* Variant: removeStrategy without the check that the adapter is empty.
removeStrategy_Funded(caller, strategy) ==
    IF ~onlyOwner(caller) THEN Fail("NotOwner")
    ELSE IF strategy \notin Adapters \/ ~isStrategy[strategy] THEN Fail("InvalidStrategy")
    ELSE [res |-> "ok",
          strategies |-> RemoveFromArray(strategies, strategy),
          isStrategy |-> [isStrategy EXCEPT ![strategy] = FALSE],
          strategyCap |-> [strategyCap EXCEPT ![strategy] = 0]]
\* Variant: removeStrategy that leaves the removed adapter's cap in place.
removeStrategy_KeepsCap(caller, strategy) ==
    IF ~onlyOwner(caller) THEN Fail("NotOwner")
    ELSE IF strategy \notin Adapters \/ ~isStrategy[strategy] THEN Fail("InvalidStrategy")
    ELSE IF AdapterTotalAssets(strategy, tokenBal, down) = REVERT
    THEN Fail("AdapterReverted")
    ELSE IF AdapterTotalAssets(strategy, tokenBal, down) # 0 THEN Fail("StrategyNotEmpty")
    ELSE [res |-> "ok",
          strategies |-> RemoveFromArray(strategies, strategy),
          isStrategy |-> [isStrategy EXCEPT ![strategy] = FALSE],
          strategyCap |-> strategyCap]
\* removeStrategy(strategy)
removeStrategy(caller, strategy) ==
    IF ~onlyOwner(caller) THEN Fail("NotOwner")
    ELSE IF strategy \notin Adapters \/ ~isStrategy[strategy] THEN Fail("InvalidStrategy")
    ELSE IF AdapterTotalAssets(strategy, tokenBal, down) = REVERT
    THEN Fail("AdapterReverted")
    ELSE IF AdapterTotalAssets(strategy, tokenBal, down) # 0 THEN Fail("StrategyNotEmpty")
    ELSE [res |-> "ok",
          strategies |-> RemoveFromArray(strategies, strategy),
          isStrategy |-> [isStrategy EXCEPT ![strategy] = FALSE],
          strategyCap |-> [strategyCap EXCEPT ![strategy] = 0]]

\* Variant: a cap is never set below what the adapter holds.
updateStrategyCap_AboveHeld(caller, strategy, newCap) ==
    IF ~onlyOwner(caller) THEN Fail("NotOwner")
    ELSE IF strategy \notin Adapters \/ ~isStrategy[strategy] THEN Fail("InvalidStrategy")
    ELSE [res |-> "ok",
          strategyCap |-> [strategyCap EXCEPT
                              ![strategy] = IF newCap < tokenBal[strategy]
                                            THEN tokenBal[strategy] ELSE newCap]]
\* updateStrategyCap(strategy, newCap)
updateStrategyCap(caller, strategy, newCap) ==
    IF ~onlyOwner(caller) THEN Fail("NotOwner")
    ELSE IF strategy \notin Adapters \/ ~isStrategy[strategy] THEN Fail("InvalidStrategy")
    ELSE [res |-> "ok", strategyCap |-> [strategyCap EXCEPT ![strategy] = newCap]]

\* Variant: setOperator without the check of the zero address.
setOperator_AcceptsNull(caller, newOperator) ==
    IF ~onlyOwner(caller) THEN Fail("NotOwner")
    ELSE [res |-> "ok", operator |-> newOperator]
\* setOperator(newOperator)
setOperator(caller, newOperator) ==
    IF ~onlyOwner(caller) THEN Fail("NotOwner")
    ELSE IF newOperator = NULL THEN Fail("InvalidOperator")
    ELSE [res |-> "ok", operator |-> newOperator]

\* Variant: a pause that succeeds on a paused vault too.
pause_Total(p, caller) ==
    IF ~onlyOperator(caller) THEN Fail("NotOperator")
    ELSE [res |-> "ok", paused |-> TRUE]
\* pause(): Pausable._pause requires whenNotPaused
pause(p, caller) ==
    IF ~onlyOperator(caller) THEN Fail("NotOperator")
    ELSE IF p THEN Fail("Paused")
    ELSE [res |-> "ok", paused |-> TRUE]

\* unpause(): Pausable._unpause requires whenPaused
unpause(p, caller) ==
    IF ~onlyOwner(caller) THEN Fail("NotOwner")
    ELSE IF ~p THEN Fail("NotPaused")
    ELSE [res |-> "ok", paused |-> FALSE]

\* IdleStrategy.emergencyWithdraw(): the adapter's owner takes its whole balance.
emergencyWithdraw(caller, a) ==
    IF ~onlyOwner(caller) THEN Fail("NotOwner")
    ELSE [res |-> "ok", bal |-> [tokenBal EXCEPT ![a] = 0]]


\* ------------------------------------------------------------------ views
\* _getAvailableLiquidity(): idle balance plus every registered adapter's balance.
GetAvailableLiquidity == TotalAssetsOn(strategies, tokenBal, down)

\* Variant: the owner's assets rounded up.
OwnerAssets_Ceil(shs, ta, ts) == ConvertToAssetsCeil(shs, ta, ts)
\* The rounding of maxWithdraw's conversion of the owner's shares: Floor.
OwnerAssets(shs, ta, ts) == ConvertToAssetsFloor(shs, ta, ts)

\* maxWithdraw(owner_); REVERT when an adapter's totalAssets() reverts.
maxWithdraw(owner_) ==
    IF totalAssets = REVERT THEN REVERT
    ELSE LET ownerAssets == OwnerAssets(balanceOf[owner_], totalAssets, totalSupply)
             availableLiquidity == GetAvailableLiquidity
         IN  IF ownerAssets > availableLiquidity THEN availableLiquidity ELSE ownerAssets

\* ---------------------------------------------------------------- actions
\* Variant: maxDeposit that does not look at the pause.
maxDeposit_Unbounded(p) == MaxUint256
\* maxDeposit(receiver) and maxMint(receiver): 0 when paused, else no limit.
maxDeposit(p) == IF p THEN 0 ELSE MaxUint256
maxMint(p) == IF p THEN 0 ELSE MaxUint256
Rec(op, res) ==
    [op |-> op, res |-> res, caller |-> NULL, owner |-> NULL, req |-> 0,
     want |-> 0, delivered |-> 0, burned |-> 0, released |-> 0, asked |-> <<>>, failed |-> <<>>,
     nested |-> {}]

\* The record of a successful deposit, mint, withdraw or redeem with outcome o.
FlowRec(op, caller, owner_, req, o) ==
    [op |-> op, res |-> "ok", caller |-> caller, owner |-> owner_, req |-> req,
     want |-> o.want, delivered |-> o.delivered, burned |-> o.burned, released |-> o.released,
     asked |-> o.asked, failed |-> o.failed, nested |-> {}]

ledgerVars   == <<tokenBal, balanceOf, totalSupply, allowance>>
registryVars == <<strategies, isStrategy, strategyCap, regOrder>>
accessVars   == <<paused, operator, status>>

\* Calls are made on the committed state: a reverted call's record is an
\* observation of that call alone, and the next call is made on the state it left.
Committed == last.res = "ok"

\* Variant: a failed withdraw or redeem leaves in the idle balance what its
\* cascade could pull out of the registered adapters.
Reverted_KeepsPulls(op, res) ==
    /\ last' = Rec(op, res)
    /\ tokenBal' = IF op \in {"withdraw", "redeem"}
                   THEN [a \in Accounts |->
                           IF a = VAULT THEN TotalAssetsOn(strategies, tokenBal, {})
                           ELSE IF isStrategy[a] THEN 0 ELSE tokenBal[a]]
                   ELSE tokenBal
    /\ UNCHANGED <<balanceOf, totalSupply, allowance, registryVars, accessVars, down>>
\* A reverted call: nothing changes but the record.
Reverted(op, res) ==
    /\ last' = Rec(op, res)
    /\ UNCHANGED <<ledgerVars, registryVars, accessVars, down>>

TokensHeld(b) == b[VAULT] + b["s1"] + b["s2"] + b["s3"]

\* The successful deposit, mint, withdraw or redeem with outcome o takes effect.
\* (limit caps the tokens in the model.)
CommitFlowIn(limit, op, caller, owner_, req, o) ==
    /\ TokensHeld(o.bal) <= limit
    /\ o.totalSupply <= MaxShares
    /\ tokenBal' = o.bal
    /\ balanceOf' = o.balanceOf
    /\ totalSupply' = o.totalSupply
    /\ allowance' = o.allowance
    /\ last' = FlowRec(op, caller, owner_, req, o)
    /\ UNCHANGED <<registryVars, accessVars, down>>

CommitFlow(op, caller, owner_, req, o) == CommitFlowIn(MaxAssets, op, caller, owner_, req, o)

DepositIn(limit, caller, assets, receiver) ==
    /\ Committed
    /\ LET o == deposit(paused, caller, assets, receiver)
       IN  IF o.res = "ok" THEN CommitFlowIn(limit, "deposit", caller, receiver, assets, o)
           ELSE Reverted("deposit", o.res)

Deposit(caller, assets, receiver) == DepositIn(MaxAssets, caller, assets, receiver)

Mint(caller, shs, receiver) ==
    /\ Committed
    /\ LET o == mint(paused, caller, shs, receiver)
       IN  IF o.res = "ok" THEN CommitFlow("mint", caller, receiver, shs, o)
           ELSE Reverted("mint", o.res)

Withdraw(caller, assets, receiver, owner_, beh) ==
    /\ Committed
    /\ LET o == withdraw(paused, caller, assets, receiver, owner_, beh)
       IN  IF o.res = "ok" THEN CommitFlow("withdraw", caller, owner_, assets, o)
           ELSE Reverted("withdraw", o.res)

RedeemIn(limit, caller, shs, receiver, owner_, beh) ==
    /\ Committed
    /\ LET o == redeem(paused, caller, shs, receiver, owner_, beh)
       IN  IF o.res = "ok" THEN CommitFlowIn(limit, "redeem", caller, owner_, shs, o)
           ELSE Reverted("redeem", o.res)

Redeem(caller, shs, receiver, owner_, beh) ==
    RedeemIn(MaxAssets, caller, shs, receiver, owner_, beh)

Rebalance(caller, fromStrategy, toStrategy, amount, beh) ==
    /\ Committed
    /\ LET o == rebalance(paused, caller, fromStrategy, toStrategy, amount, beh)
       IN  IF o.res = "ok"
           THEN /\ tokenBal' = o.bal
                /\ last' = [Rec("rebalance", "ok") EXCEPT
                                !.caller = caller, !.req = amount, !.delivered = o.withdrawn]
                /\ UNCHANGED <<balanceOf, totalSupply, allowance, registryVars,
                               accessVars, down>>
           ELSE Reverted("rebalance", o.res)

AddStrategy(caller, strategy, cap) ==
    /\ Committed
    /\ LET o == addStrategy(caller, strategy, cap)
       IN  IF o.res = "ok"
           THEN /\ strategies' = o.strategies
                /\ isStrategy' = o.isStrategy
                /\ strategyCap' = o.strategyCap
                /\ regOrder' = Append(regOrder, strategy)
                /\ last' = [Rec("addStrategy", "ok") EXCEPT !.caller = caller]
                /\ UNCHANGED <<ledgerVars, accessVars, down>>
           ELSE Reverted("addStrategy", o.res)

RemoveStrategy(caller, strategy) ==
    /\ Committed
    /\ LET o == removeStrategy(caller, strategy)
       IN  IF o.res = "ok"
           THEN /\ strategies' = o.strategies
                /\ isStrategy' = o.isStrategy
                /\ strategyCap' = o.strategyCap
                /\ regOrder' = SelectSeq(regOrder, LAMBDA x : x # strategy)
                /\ last' = [Rec("removeStrategy", "ok") EXCEPT !.caller = caller]
                /\ UNCHANGED <<ledgerVars, accessVars, down>>
           ELSE Reverted("removeStrategy", o.res)

UpdateStrategyCap(caller, strategy, newCap) ==
    /\ Committed
    /\ LET o == updateStrategyCap(caller, strategy, newCap)
       IN  IF o.res = "ok"
           THEN /\ strategyCap' = o.strategyCap
                /\ last' = [Rec("updateStrategyCap", "ok") EXCEPT !.caller = caller]
                /\ UNCHANGED <<ledgerVars, strategies, isStrategy, regOrder,
                               accessVars, down>>
           ELSE Reverted("updateStrategyCap", o.res)

SetOperator(caller, newOperator) ==
    /\ Committed
    /\ LET o == setOperator(caller, newOperator)
       IN  IF o.res = "ok"
           THEN /\ operator' = o.operator
                /\ last' = [Rec("setOperator", "ok") EXCEPT !.caller = caller]
                /\ UNCHANGED <<ledgerVars, registryVars, paused, status, down>>
           ELSE Reverted("setOperator", o.res)

Pause(caller) ==
    /\ Committed
    /\ LET o == pause(paused, caller)
       IN  IF o.res = "ok"
           THEN /\ paused' = o.paused
                /\ last' = [Rec("pause", "ok") EXCEPT !.caller = caller]
                /\ UNCHANGED <<ledgerVars, registryVars, operator, status, down>>
           ELSE Reverted("pause", o.res)

Unpause(caller) ==
    /\ Committed
    /\ LET o == unpause(paused, caller)
       IN  IF o.res = "ok"
           THEN /\ paused' = o.paused
                /\ last' = [Rec("unpause", "ok") EXCEPT !.caller = caller]
                /\ UNCHANGED <<ledgerVars, registryVars, operator, status, down>>
           ELSE Reverted("unpause", o.res)

EmergencyWithdraw(caller, a) ==
    /\ Committed
    /\ LET o == emergencyWithdraw(caller, a)
       IN  IF o.res = "ok"
           THEN /\ tokenBal' = o.bal
                /\ last' = [Rec("emergencyWithdraw", "ok") EXCEPT
                                !.caller = caller, !.delivered = tokenBal[a]]
                /\ UNCHANGED <<balanceOf, totalSupply, allowance, registryVars,
                               accessVars, down>>
           ELSE Reverted("emergencyWithdraw", o.res)

\* A holder of the asset transfers amount of it to the vault or to an adapter
\* (a plain ERC-20 transfer: the only way capital reaches an adapter from outside
\* a rebalance).
TransferAssetIn(limit, to, amount) ==
    /\ Committed
    /\ TokensHeld(tokenBal) + amount <= limit
    /\ tokenBal' = [tokenBal EXCEPT ![to] = @ + amount]
    /\ last' = [Rec("transfer", "ok") EXCEPT !.req = amount]
    /\ UNCHANGED <<balanceOf, totalSupply, allowance, registryVars, accessVars, down>>

TransferAsset(to, amount) == TransferAssetIn(MaxAssets, to, amount)

\* ERC20.approve(spender, value) on the vault's shares, by owner_.
Approve(owner_, spender, value) ==
    /\ Committed
    /\ allowance' = [allowance EXCEPT ![owner_][spender] = value]
    /\ last' = [Rec("approve", "ok") EXCEPT !.caller = owner_, !.req = value]
    /\ UNCHANGED <<tokenBal, balanceOf, totalSupply, registryVars, accessVars, down>>

\* The outcome of the guarded function the record r is of, for its caller and
\* amount (the caller is owner and receiver; a rebalance is from r.asked[1] to
\* r.asked[2]).
GuardedOutcome(r) ==
    CASE r.op = "deposit"   -> deposit(paused, r.caller, r.req, r.caller)
      [] r.op = "mint"      -> mint(paused, r.caller, r.req, r.caller)
      [] r.op = "withdraw"  -> withdraw(paused, r.caller, r.req, r.caller, r.caller, "honest")
      [] r.op = "redeem"    -> redeem(paused, r.caller, r.req, r.caller, r.caller, "honest")
      [] r.op = "rebalance" -> rebalance(paused, r.caller, r.asked[1], r.asked[2], r.req,
                                         "honest")

\* A top-level call of a guarded function, up to the point where its body
\* hands control to another contract (an adapter, the asset): the modifiers
\* have run and the guard is set. A call the modifiers refuse reverts.
CallGuarded(op, caller, amount, pair) ==
    /\ Committed
    /\ LET m == Modifiers(op, status, paused, caller)
           r == [Rec(op, "entered") EXCEPT !.caller = caller, !.owner = caller,
                                           !.req = amount, !.asked = pair]
           o == GuardedOutcome(r)
       IN  IF m = "ok"
           THEN /\ o.res = "ok" =>
                      /\ TokensHeld(o.bal) <= MaxAssets
                      /\ op # "rebalance" => o.totalSupply <= MaxShares
                /\ status' = "ENTERED"
                /\ last' = r
                /\ UNCHANGED <<ledgerVars, registryVars, paused, operator, down>>
           ELSE Reverted(op, m)

\* While the guarded function is running, the contract that has control calls
\* a guarded function of the vault as caller: the call is what the modifiers
\* answer, recorded in the running call's record.
Reenter(op, caller) ==
    /\ last.res = "entered"
    /\ LET n == [op |-> op, caller |-> caller,
                 res |-> Modifiers(op, status, paused, caller)]
       IN  /\ n \notin last.nested
           /\ last' = [last EXCEPT !.nested = {n}]
    /\ UNCHANGED <<ledgerVars, registryVars, accessVars, down>>

\* Control comes back and the running function ends: with its effects, or
\* reverted; either way the guard is reset.
ReturnGuarded ==
    /\ last.res = "entered"
    /\ status' = "NOT_ENTERED"
    /\ LET o == GuardedOutcome(last)
       IN  IF o.res # "ok"
           THEN /\ last' = Rec(last.op, o.res)
                /\ UNCHANGED ledgerVars
           ELSE IF last.op = "rebalance"
           THEN /\ tokenBal' = o.bal
                /\ last' = [Rec("rebalance", "ok") EXCEPT
                                !.caller = last.caller, !.req = last.req,
                                !.delivered = o.withdrawn]
                /\ UNCHANGED <<balanceOf, totalSupply, allowance>>
           ELSE /\ tokenBal' = o.bal
                /\ balanceOf' = o.balanceOf
                /\ totalSupply' = o.totalSupply
                /\ allowance' = o.allowance
                /\ last' = FlowRec(last.op, last.caller, last.owner, last.req, o)
    /\ UNCHANGED <<registryVars, paused, operator, down>>
\* The arbitrary adapter starts or stops answering totalAssets().
AdapterToggle(a) ==
    /\ Committed
    /\ down' = IF a \in down THEN down \ {a} ELSE down \cup {a}
    /\ last' = Rec("adapterToggle", "ok")
    /\ UNCHANGED <<ledgerVars, registryVars, accessVars>>

\* ------------------------------------------------------------ specification
Amounts      == 0..MaxAssets
ShareAmounts == 0..MaxShares
CapValues    == {0, 1, MaxAssets}

\* The behaviours to enumerate: those of the arbitrary adapter when the call
\* can reach its withdraw or deposit, none to choose otherwise.
CascadeBehaviours ==
    IF \E a \in RogueAdapters : isStrategy[a] /\ a \notin down /\ tokenBal[a] > 0
    THEN Behaviours ELSE {"honest"}

RebalanceBehaviours(f, t) ==
    IF f # t /\ isStrategy[f] /\ isStrategy[t] /\ (f \in RogueAdapters \/ t \in RogueAdapters)
    THEN Behaviours ELSE {"honest"}

\* The state after the constructor.
Init ==
    /\ paused = FALSE
    /\ operator = OWNER
    /\ status = "NOT_ENTERED"
    /\ strategies = <<>>
    /\ isStrategy = [a \in Adapters |-> FALSE]
    /\ strategyCap = [a \in Adapters |-> 0]
    /\ tokenBal = [a \in Accounts |-> 0]
    /\ down = {}
    /\ balanceOf = [h \in Holders |-> 0]
    /\ totalSupply = 0
    /\ allowance = [h \in Holders |-> [c \in Holders |-> 0]]
    /\ regOrder = <<>>
    /\ last = Rec("constructor", "ok")

\* The registries the owner has set up before the flows start.
Registries == {<<"s1", "s2">>, <<"s3", "s1">>, <<"s1", "s3">>}

InitFlow ==
    /\ paused = FALSE
    /\ operator = OWNER
    /\ status = "NOT_ENTERED"
    /\ strategies \in Registries
    /\ isStrategy = [a \in Adapters |-> a \in SeqToSet(strategies)]
    /\ strategyCap = [a \in Adapters |-> IF a \in SeqToSet(strategies) THEN MaxAssets ELSE 0]
    /\ tokenBal = [a \in Accounts |-> 0]
    /\ down = {}
    /\ balanceOf = [h \in Holders |-> 0]
    /\ totalSupply = 0
    /\ allowance = [h \in Holders |-> [c \in Holders |-> 0]]
    /\ regOrder = strategies
    /\ last = Rec("addStrategy", "ok")

\* The allowances a holder grants on its shares.
Allowances == 0..MaxShares \cup {MaxUint256}

\* One holder's shares, the allowances it grants to a delegate, and the exits
\* by the holder and by the delegate.
AllowNext ==
    \/ \E x \in Amounts : Deposit("u1", x, "u1")
    \/ \E v \in Allowances : Approve("u1", "u2", v)
    \/ \E c \in Holders, x \in Amounts, beh \in CascadeBehaviours :
          Withdraw(c, x, "u1", "u1", beh)
    \/ \E c \in Holders, x \in ShareAmounts, beh \in CascadeBehaviours :
          Redeem(c, x, "u1", "u1", beh)
    \/ \E f \in Adapters, t \in Adapters, x \in Amounts :
          Rebalance(OWNER, f, t, x, "honest")
    \/ \E t \in {VAULT} \cup SeqToSet(strategies), x \in 1..MaxAssets : TransferAsset(t, x)

SpecAllow == InitFlow /\ [][AllowNext]_vars
\* An IdleStrategy taken alone, as its tests take it: the vault holds some
\* tokens and calls or is impersonated; the record carries what each adapter
\* has accepted and released so far.
MaxTurnover == 5    \* tokens an adapter accepts in all
StrategyCallers == {VAULT, OWNER, "u1"}

StrategyRec(op, res, caller, a, amount, ret, acc, rel) ==
    [op |-> op, res |-> res, caller |-> caller, adapter |-> a, req |-> amount,
     ret |-> ret, accepted |-> acc, released |-> rel]

InitIdle ==
    /\ paused = FALSE
    /\ operator = OWNER
    /\ status = "NOT_ENTERED"
    /\ strategies = <<"s1", "s2">>
    /\ isStrategy = [a \in Adapters |-> a \in SeqToSet(strategies)]
    /\ strategyCap = [a \in Adapters |-> IF a \in SeqToSet(strategies) THEN MaxAssets ELSE 0]
    /\ \E f \in 0..MaxAssets : tokenBal = [a \in Accounts |-> IF a = VAULT THEN f ELSE 0]
    /\ down = {}
    /\ balanceOf = [h \in Holders |-> 0]
    /\ totalSupply = 0
    /\ allowance = [h \in Holders |-> [c \in Holders |-> 0]]
    /\ regOrder = strategies
    /\ last = StrategyRec("constructor", "ok", OWNER, NULL, 0, 0,
                          [a \in IdleAdapters |-> 0], [a \in IdleAdapters |-> 0])

StrategyDeposit(caller, a, amount) ==
    /\ Committed
    /\ LET o == strategyDeposit(caller, a, amount, tokenBal)
       IN  IF o.res = "ok"
           THEN /\ last.accepted[a] + amount <= MaxTurnover
                /\ tokenBal' = o.bal
                /\ last' = StrategyRec("deposit", "ok", caller, a, amount, amount,
                                       [last.accepted EXCEPT ![a] = @ + amount],
                                       last.released)
           ELSE /\ tokenBal' = tokenBal
                /\ last' = StrategyRec("deposit", o.res, caller, a, amount, 0,
                                       last.accepted, last.released)
    /\ UNCHANGED <<balanceOf, totalSupply, allowance, registryVars, accessVars, down>>

StrategyWithdraw(caller, a, amount) ==
    /\ Committed
    /\ LET o == strategyWithdraw(caller, a, amount, tokenBal)
       IN  IF o.res = "ok"
           THEN /\ tokenBal' = o.bal
                /\ last' = StrategyRec("withdraw", "ok", caller, a, amount, o.ret,
                                       last.accepted,
                                       [last.released EXCEPT ![a] = @ + o.ret])
           ELSE /\ tokenBal' = tokenBal
                /\ last' = StrategyRec("withdraw", o.res, caller, a, amount, 0,
                                       last.accepted, last.released)
    /\ UNCHANGED <<balanceOf, totalSupply, allowance, registryVars, accessVars, down>>

IdleNext ==
    \/ \E c \in StrategyCallers, a \in IdleAdapters, x \in 0..MaxAssets :
          StrategyDeposit(c, a, x)
    \/ \E c \in StrategyCallers, a \in IdleAdapters, x \in 0..MaxAssets + 1 :
          StrategyWithdraw(c, a, x)

SpecIdle == InitIdle /\ [][IdleNext]_vars
\* The first-deposit attack on the vault as constructed: the attacker u1
\* deposits 1, donates to the idle balance, the victim u2 deposits, and the
\* attacker redeems.
MaxDonation == 10   \* tokens the attacker donates
MaxVictim == 10     \* tokens the victim deposits
MaxAttack == 1 + MaxDonation + MaxVictim

CommitAttack(op, caller, req, o) ==
    /\ tokenBal' = o.bal
    /\ balanceOf' = o.balanceOf
    /\ totalSupply' = o.totalSupply
    /\ allowance' = o.allowance
    /\ last' = FlowRec(op, caller, caller, req, o)
    /\ UNCHANGED <<registryVars, accessVars, down>>

AttackerDeposits ==
    /\ last.op = "constructor"
    /\ LET o == deposit(paused, "u1", 1, "u1")
       IN  o.res = "ok" /\ CommitAttack("deposit", "u1", 1, o)

AttackerDonates(d) ==
    /\ last.op = "deposit" /\ last.caller = "u1"
    /\ TransferAssetIn(MaxAttack, VAULT, d)

VictimDeposits(v) ==
    /\ last.op = "transfer" \/ (last.op = "deposit" /\ last.caller = "u1")
    /\ LET o == deposit(paused, "u2", v, "u2")
       IN  o.res = "ok" /\ CommitAttack("deposit", "u2", v, o)

AttackerRedeems(shs) ==
    /\ last.op = "deposit" /\ last.caller = "u2"
    /\ LET o == redeem(paused, "u1", shs, "u1", "u1", "honest")
       IN  o.res = "ok" /\ CommitAttack("redeem", "u1", shs, o)

AttackNext ==
    \/ AttackerDeposits
    \/ \E d \in 1..MaxDonation : AttackerDonates(d)
    \/ \E v \in 1..MaxVictim : VictimDeposits(v)
    \/ \E shs \in 1..MaxShares : AttackerRedeems(shs)

SpecAttack == Init /\ [][AttackNext]_vars
\* The flows on a registry the owner has set up, with an adapter of arbitrary
\* behaviour in it or not.
FlowNext ==
    \/ \E c \in Holders, x \in Amounts, r \in {"u1", NULL} : Deposit(c, x, r)
    \/ \E c \in Holders, x \in ShareAmounts, r \in {"u1", NULL} : Mint(c, x, r)
    \/ \E c \in Holders, x \in Amounts, r \in {"u1", NULL}, o \in Holders,
          beh \in CascadeBehaviours : Withdraw(c, x, r, o, beh)
    \/ \E c \in Holders, x \in ShareAmounts, r \in {"u1", NULL}, o \in Holders,
          beh \in CascadeBehaviours : Redeem(c, x, r, o, beh)
    \/ \E c \in {OWNER, "u1"}, f \in Adapters, t \in Adapters, x \in Amounts :
          \E beh \in RebalanceBehaviours(f, t) : Rebalance(c, f, t, x, beh)
    \/ \E c \in Callers : Pause(c)
    \/ \E c \in Callers : Unpause(c)
    \/ \E c \in {OWNER, "u1"}, a \in IdleAdapters : EmergencyWithdraw(c, a)
    \/ \E t \in {VAULT} \cup SeqToSet(strategies), x \in 1..MaxAssets : TransferAsset(t, x)
    \/ \E a \in RogueAdapters : AdapterToggle(a)

SpecFlow == InitFlow /\ [][FlowNext]_vars

\* The registry from the constructor on, with one holder and adapters that
\* behave as IdleStrategy does.
RegistryNext ==
    \/ \E c \in {OWNER, "u1"}, a \in Adapters \cup ForeignAdapters \cup {NULL},
          cap \in {0, MaxAssets} : AddStrategy(c, a, cap)
    \/ \E c \in {OWNER, "u1"}, a \in Adapters \cup ForeignAdapters : RemoveStrategy(c, a)
    \/ \E x \in Amounts, r \in {"u1", NULL} : Deposit("u1", x, r)
    \/ \E x \in Amounts, r \in {"u1", NULL} : Withdraw("u1", x, r, "u1", "honest")
    \/ \E x \in ShareAmounts, r \in {"u1", NULL} : Redeem("u1", x, r, "u1", "honest")
    \/ \E f \in Adapters, t \in Adapters, x \in Amounts : Rebalance(OWNER, f, t, x, "honest")
    \/ \E c \in {OWNER, "u1"}, a \in IdleAdapters : EmergencyWithdraw(c, a)
    \/ \E t \in Accounts, x \in 1..MaxAssets : TransferAsset(t, x)

Spec == Init /\ [][RegistryNext]_vars

\* Every call of the vault from the constructor on, with one holder, two
\* IdleStrategy adapters and an operator other than the owner.
AdminAdapters == IdleAdapters \cup ForeignAdapters \cup {NULL}

AdminNext ==
    \/ \E c \in {OWNER, "u1"}, a \in AdminAdapters, cap \in {0, 1, MaxAssets} :
          AddStrategy(c, a, cap)
    \/ \E c \in {OWNER, "u1"}, a \in AdminAdapters : RemoveStrategy(c, a)
    \/ \E c \in {OWNER, "u1"}, a \in AdminAdapters, cap \in {0, 1, MaxAssets} :
          UpdateStrategyCap(c, a, cap)
    \/ \E c \in {OWNER, "u1"}, n \in {"op", OWNER, NULL} : SetOperator(c, n)
    \/ \E c \in Callers : Pause(c)
    \/ \E c \in Callers : Unpause(c)
    \/ \E x \in Amounts, r \in {"u1", NULL} : Deposit("u1", x, r)
    \/ \E x \in ShareAmounts, r \in {"u1", NULL} : Mint("u1", x, r)
    \/ \E x \in Amounts, r \in {"u1", NULL} : Withdraw("u1", x, r, "u1", "honest")
    \/ \E x \in ShareAmounts, r \in {"u1", NULL} : Redeem("u1", x, r, "u1", "honest")
    \/ \E c \in Callers, f \in IdleAdapters, t \in IdleAdapters, x \in Amounts :
          Rebalance(c, f, t, x, "honest")
    \/ \E t \in {VAULT} \cup IdleAdapters, x \in 1..MaxAssets : TransferAsset(t, x)

SpecAdmin == Init /\ [][AdminNext]_vars

\* Deposits, redeems and transfers of the asset to a vault that has no adapter,
\* so that every token is idle, with pools of up to MaxTrip tokens.
TripNext ==
    \/ \E c \in Holders, x \in 0..MaxTrip, r \in Holders : DepositIn(MaxTrip, c, x, r)
    \/ \E o \in Holders, x \in ShareAmounts : RedeemIn(MaxTrip, o, x, o, o, "honest")
    \/ \E x \in 1..MaxTrip : TransferAssetIn(MaxTrip, VAULT, x)

SpecTrip == Init /\ [][TripNext]_vars

\* Rebalances on a registry the owner has set up, with an adapter of arbitrary
\* behaviour in it or not, under caps the owner moves between 0 and MaxAssets.
CapNext ==
    \/ \E x \in Amounts : Deposit("u1", x, "u1")
    \/ \E c \in {OWNER, "u1"}, f \in Adapters, t \in Adapters, x \in Amounts :
          \E beh \in RebalanceBehaviours(f, t) : Rebalance(c, f, t, x, beh)
    \/ \E a \in Adapters, cap \in 0..MaxAssets : UpdateStrategyCap(OWNER, a, cap)
    \/ \E t \in {VAULT} \cup SeqToSet(strategies), x \in 1..MaxAssets : TransferAsset(t, x)

SpecCap == InitFlow /\ [][CapNext]_vars

\* The guarded functions taken in two steps, with calls back into the vault
\* while they run, on a registry with an adapter that can be made operator.
GuardNext ==
    \/ \E op \in GuardedOps \ {"rebalance"}, x \in 1..2 : CallGuarded(op, "u1", x, <<>>)
    \/ \E c \in {OWNER, "s3"}, f \in Adapters, t \in Adapters, x \in 1..2 :
          CallGuarded("rebalance", c, x, <<f, t>>)
    \/ \E op \in GuardedOps, c \in {"u1", "s3"} : Reenter(op, c)
    \/ ReturnGuarded
    \/ Pause(OWNER)
    \/ Unpause(OWNER)
    \/ \E n \in {OWNER, "s3"} : SetOperator(OWNER, n)
    \/ \E t \in {VAULT} \cup SeqToSet(strategies), x \in 1..MaxAssets : TransferAsset(t, x)

SpecGuard == InitFlow /\ [][GuardNext]_vars

\* ------------------------------------------------------------------ claims
Receivers == {"u1", NULL}

\* C1: withdraw and redeem do not depend on the pause state: for every caller,
\* owner, receiver, amount and adapter behaviour, the call made in this state
\* with the vault paused has the outcome (success or the same error, the same
\* balances, shares, allowances and delivery) of the call made with it active.
\* (The record of a reverted call holds the state of the call before it, where
\* the comparison is already made.)
C1_PauseExemption ==
    Committed =>
        \A caller \in Holders, owner_ \in Holders, receiver \in Receivers,
           beh \in CascadeBehaviours :
            /\ \A assets \in Amounts :
                  withdraw(TRUE, caller, assets, receiver, owner_, beh)
                    = withdraw(FALSE, caller, assets, receiver, owner_, beh)
            /\ \A shs \in ShareAmounts :
                  redeem(TRUE, caller, shs, receiver, owner_, beh)
                    = redeem(FALSE, caller, shs, receiver, owner_, beh)

\* A withdrawal that pulled from the adapters went through while paused.
C1_Witness ==
    /\ paused
    /\ last.op = "withdraw" /\ last.res = "ok"
    /\ last.released > 0 /\ last.burned > 0

\* C2 (as stated): while paused every deposit, mint and rebalance is refused
\* with Paused, whatever the caller.
C2_AllRefusedWithPaused ==
    paused =>
        /\ \A caller \in Holders, assets \in Amounts, receiver \in Receivers :
              deposit(paused, caller, assets, receiver).res = "Paused"
        /\ \A caller \in Holders, shs \in ShareAmounts, receiver \in Receivers :
              mint(paused, caller, shs, receiver).res = "Paused"
        /\ \A caller \in Callers, f \in Adapters, t \in Adapters, amount \in Amounts :
              rebalance(paused, caller, f, t, amount, "honest").res = "Paused"

\* C2 (amended): while paused every deposit and mint is refused with Paused;
\* every rebalance is refused too, with Paused when the caller is the operator
\* or the owner and with NotOperator otherwise, the caller being checked first.
C2_PausedRefusals ==
    paused =>
        /\ \A caller \in Holders, assets \in Amounts, receiver \in Receivers :
              deposit(paused, caller, assets, receiver).res = "Paused"
        /\ \A caller \in Holders, shs \in ShareAmounts, receiver \in Receivers :
              mint(paused, caller, shs, receiver).res = "Paused"
        /\ \A caller \in Callers, f \in Adapters, t \in Adapters, amount \in Amounts :
              rebalance(paused, caller, f, t, amount, "honest").res
                = IF onlyOperator(caller) THEN "Paused" ELSE "NotOperator"

\* A deposit was refused with Paused.
C2_Witness == last.op = "deposit" /\ last.res = "Paused"

\* Every registered adapter is an IdleStrategy created for this vault.
HonestRegistry == SeqToSet(strategies) \subseteq IdleAdapters

\* C3: with only honest IdleStrategy adapters registered, in any pause state, a
\* holder's withdraw of any amount from 1 to maxWithdraw(holder) succeeds and
\* delivers exactly that amount.
C3_WithdrawalAvailability ==
    HonestRegistry =>
        \A h \in Holders : \A assets \in 1..maxWithdraw(h) :
            LET o == withdraw(paused, h, assets, "u1", h, "honest")
            IN  o.res = "ok" /\ o.delivered = assets

\* A holder withdrew exactly the request while paused, part of it from an adapter.
C3_Witness ==
    /\ HonestRegistry /\ paused
    /\ last.op = "withdraw" /\ last.res = "ok"
    /\ last.caller = last.owner
    /\ last.released > 0 /\ last.delivered = last.req

\* totalAssets() of the state a step leads to.
totalAssetsAfter == TotalAssetsOn(strategies', tokenBal', down')

baseVars == <<paused, operator, strategies, isStrategy, strategyCap, tokenBal,
              down, balanceOf, totalSupply, allowance, regOrder, status>>

\* C4: a rebalance that succeeds leaves totalAssets() equal to its value before
\* the call, and leaves the shares untouched; one that fails changes nothing.
C4_RebalanceNeutrality ==
    [][last'.op = "rebalance" =>
          IF last'.res = "ok"
          THEN /\ totalAssetsAfter = totalAssets
               /\ totalAssets # REVERT
               /\ UNCHANGED <<balanceOf, totalSupply>>
          ELSE UNCHANGED baseVars]_vars

\* A rebalance moved tokens from one adapter to another.
C4_Witness ==
    /\ last.op = "rebalance" /\ last.res = "ok"
    /\ last.delivered > 0

\* C5: totalAssets() changes only by deposit and mint (up by the assets
\* received) and by withdraw and redeem (down by the assets delivered); the
\* restricted functions of the vault and every other adapter operation leave it
\* unchanged. Plain token transfers by third parties are outside the claim.
C5_CustodyChangesOnlyByFlows ==
    [][(HonestRegistry /\ last'.res = "ok" /\ last'.op # "transfer") =>
          totalAssetsAfter =
              CASE last'.op \in {"deposit", "mint"}    -> totalAssets + last'.delivered
                [] last'.op \in {"withdraw", "redeem"} -> totalAssets - last'.delivered
                [] OTHER                               -> totalAssets]_vars

\* C6: a withdraw that succeeds delivers min(requested, idle balance before the
\* call + what the adapters released in the cascade), and the vault's idle
\* balance ends at what it held plus the released amount minus the delivery.
C6_PartialWithdrawal ==
    [][(last'.op = "withdraw" /\ last'.res = "ok") =>
          /\ last'.delivered = Min(last'.req, tokenBal[VAULT] + last'.released)
          /\ tokenBal'[VAULT] = tokenBal[VAULT] + last'.released - last'.delivered]_vars

\* A withdraw succeeded with less than the request, part of it from an adapter.
C6_Witness ==
    /\ last.op = "withdraw" /\ last.res = "ok"
    /\ last.delivered < last.req
    /\ last.released > 0

\* totalAssets() at the moment withdraw converts the delivered amount to shares:
\* after the cascade and before the transfer to the receiver.
totalAssetsAtBurn == totalAssetsAfter + last'.delivered

\* The owner's and the total share count go down by n in the step.
SharesBurned(n) ==
    /\ totalSupply' = totalSupply - n
    /\ balanceOf' = [balanceOf EXCEPT ![last'.owner] = @ - n]

\* C7: when a withdraw delivers less than requested, the shares burned are the
\* conversion of the delivered amount, not of the requested one: never more
\* than the request would have cost, and none when nothing is delivered.
C7_BurnFollowsDelivery ==
    [][(last'.op = "withdraw" /\ last'.res = "ok" /\ last'.delivered < last'.req) =>
          /\ SharesBurned(last'.burned)
          /\ last'.burned = previewWithdraw(last'.delivered, totalAssetsAtBurn, totalSupply)
          /\ last'.burned <= previewWithdraw(last'.req, totalAssetsAtBurn, totalSupply)
          /\ (last'.delivered = 0 => last'.burned = 0)]_vars

\* A partial withdraw burned shares for what it delivered.
C7_Witness ==
    /\ last.op = "withdraw" /\ last.res = "ok"
    /\ 0 < last.delivered /\ last.delivered < last.req
    /\ last.burned > 0

\* C8 (as stated): the shares a successful withdraw burns are
\* convertToShares(actualAssets) rounded down.
C8_BurnRoundsDown ==
    [][(last'.op = "withdraw" /\ last'.res = "ok") =>
          /\ SharesBurned(last'.burned)
          /\ last'.burned = ConvertToSharesFloor(last'.delivered, totalAssetsAtBurn,
                                                 totalSupply)]_vars

\* C8 (amended): the shares a successful withdraw burns are
\* convertToShares(actualAssets) rounded up (previewWithdraw), taken on the pool
\* as it stands after the cascade.
C8_BurnRoundsUp ==
    [][(last'.op = "withdraw" /\ last'.res = "ok") =>
          /\ SharesBurned(last'.burned)
          /\ last'.burned = ConvertToSharesCeil(last'.delivered, totalAssetsAtBurn,
                                                totalSupply)]_vars

\* A withdraw burned a share where rounding down gives none: two tokens backed
\* one share and one token was withdrawn.
C8_Witness ==
    /\ last.op = "withdraw" /\ last.res = "ok"
    /\ last.delivered = 1 /\ last.burned = 1
    /\ totalSupply = 0 /\ totalAssets = 1

Pos(order, a) == IndexOf(order, a, 1)

\* The cascade of this step called withdraw on adapters of order, in the order
\* of order, each at most once, passing over none that held funds, and stopped
\* only when the need was met or order was exhausted; it asked none only when
\* the idle balance covered the need.
AskedInOrderOf(order) ==
    LET asked == last'.asked
        n == Len(asked)
    IN  /\ \A i \in 1..n : Pos(order, asked[i]) > 0
        /\ \A i \in 1..n, j \in 1..n : i < j => Pos(order, asked[i]) < Pos(order, asked[j])
        /\ \A k \in 1..Len(order) :
              (tokenBal[order[k]] > 0 /\ order[k] \notin SeqToSet(asked)) =>
                  IF n = 0
                  THEN tokenBal[VAULT] >= last'.want
                  ELSE k > Pos(order, asked[n]) /\ last'.delivered = last'.want

\* C10 (as stated): after any sequence of adds and removes, the cascade of a
\* withdraw or redeem asks the registered adapters in the order in which they
\* were registered.
C10_RegistrationOrder ==
    [][(last'.op \in {"withdraw", "redeem"} /\ last'.res = "ok") =>
          AskedInOrderOf(regOrder)]_vars

\* C10 (amended): the cascade asks the registered adapters in the order of the
\* strategies array, which removeStrategy reorders by moving the last adapter
\* into the removed one's place.
C10_ArrayOrder ==
    [][(last'.op \in {"withdraw", "redeem"} /\ last'.res = "ok") =>
          AskedInOrderOf(strategies)]_vars

\* After a removal reordered the array, a withdraw took from the adapter first
\* in the array while the first-registered one, holding funds, was not asked.
C10_Witness ==
    /\ last.op = "withdraw" /\ last.res = "ok"
    /\ Len(strategies) >= 2
    /\ last.asked = <<strategies[1]>>
    /\ regOrder[1] # strategies[1]
    /\ tokenBal[regOrder[1]] > 0

\* What the registered adapters other than those of failed released, from
\* balances b to balances b2.
ReleasedByOthers(failed, b, b2) ==
    LET Other(a) == a \notin SeqToSet(failed)
    IN  SumSeq([a \in Adapters |-> b[a] - b2[a]], SelectSeq(strategies, Other))

\* The cascade of a call wanting the amount want gets to the arbitrary adapter
\* at position k of the array with a remainder outstanding, and finds it funded:
\* the idle balance and the adapters before it do not cover want.
CascadeReaches(k, want) ==
    /\ strategies[k] \in RogueAdapters
    /\ tokenBal[strategies[k]] > 0
    /\ tokenBal[VAULT] + SumSeq(tokenBal, SubSeq(strategies, 1, k - 1)) < want

\* Outcome o of a withdraw or redeem wanting the amount want, whose cascade met
\* an adapter whose withdraw reverted: the call is not aborted by it, the
\* failure is recorded, the failing adapter keeps its balance, every funded
\* adapter after it is asked while a remainder is outstanding, and the delivery
\* is min(want, idle + what the other adapters released).
IsolatedOutcome(o, want) ==
    \A k \in 1..Len(strategies) :
        CascadeReaches(k, want) =>
            /\ o.res \in {"ok", "InsufficientShares"}
            /\ o.res = "ok" =>
                  /\ o.failed = <<strategies[k]>>
                  /\ \A a \in SeqToSet(o.failed) : o.bal[a] = tokenBal[a]
                  /\ \A j \in 1..Len(strategies) :
                        (tokenBal[strategies[j]] > 0
                            /\ strategies[j] \notin SeqToSet(o.asked))
                          => o.delivered = want
                  /\ o.delivered
                       = Min(want, tokenBal[VAULT]
                                     + ReleasedByOthers(o.failed, tokenBal, o.bal))

\* C11: when an adapter's withdraw reverts during the cascade of a withdraw or
\* a redeem, the call is not aborted: the failure is recorded, the failing
\* adapter's balance is unchanged, the later adapters are still asked while a
\* remainder is outstanding, and the call delivers min(requested, idle +
\* releases of the adapters that did not fail).
C11_FailureIsolation ==
    (Committed /\ down = {}) =>
        \A h \in Holders :
            /\ \A assets \in 1..MaxAssets :
                  IsolatedOutcome(withdraw(paused, h, assets, "u1", h, "revert"), assets)
            /\ \A shs \in 1..MaxShares :
                  IsolatedOutcome(redeem(paused, h, shs, "u1", h, "revert"),
                                  RedeemAssets(shs, totalAssets, totalSupply))

\* A withdraw delivered its request in full from an adapter asked after one
\* whose withdraw had reverted.
C11_Witness ==
    /\ last.op = "withdraw" /\ last.res = "ok"
    /\ Len(last.failed) = 1 /\ Len(last.asked) = 2
    /\ last.asked[1] = last.failed[1]
    /\ last.released > 0 /\ last.delivered = last.req

VaultOps == {"deposit", "mint", "withdraw", "redeem", "rebalance", "addStrategy",
             "removeStrategy", "updateStrategyCap", "setOperator", "pause", "unpause"}

\* C12: a call of the vault that fails leaves the whole state as it was: share
\* balances, total supply, allowances, idle balance, every adapter's balance,
\* registry, caps, operator and pause flag; in particular when a withdraw or a
\* redeem fails after its cascade pulled capital out of adapters.
C12_Atomicity ==
    [][(last'.op \in VaultOps /\ last'.res # "ok") => UNCHANGED baseVars]_vars

\* A withdraw failed for lack of shares after its cascade had to pull from a
\* funded adapter, the idle balance being empty; the adapter still holds funds.
C12_Witness ==
    /\ last.op = "withdraw" /\ last.res = "InsufficientShares"
    /\ tokenBal[VAULT] = 0
    /\ \E a \in IdleAdapters : isStrategy[a] /\ tokenBal[a] > 0

\* n is x * num / den rounded down.
IsFloorOf(n, x, num, den) == n * den <= x * num /\ x * num < (n + 1) * den

\* C13: with the vault active and every adapter answering, deposit(assets,
\* receiver) fails with ZeroAmount when assets = 0 and, assets being positive,
\* with ZeroAddress when the receiver is address(0); otherwise it succeeds,
\* raises totalAssets() and the idle balance by exactly assets, mints to the
\* receiver assets * (totalSupply + 1) / (totalAssets + 1) rounded down on the
\* pool before the deposit, and changes no adapter's balance and no other
\* holder's shares.
C13_Deposit ==
    (Committed /\ ~paused /\ totalAssets # REVERT) =>
        \A caller \in Holders, assets \in Amounts, receiver \in Holders \cup {NULL} :
            LET o == deposit(paused, caller, assets, receiver)
            IN  IF assets = 0 THEN o.res = "ZeroAmount"
                ELSE IF receiver = NULL THEN o.res = "ZeroAddress"
                ELSE /\ o.res = "ok"
                     /\ TotalAssetsOn(strategies, o.bal, down) = totalAssets + assets
                     /\ o.bal[VAULT] = tokenBal[VAULT] + assets
                     /\ \A a \in Adapters : o.bal[a] = tokenBal[a]
                     /\ IsFloorOf(o.balanceOf[receiver] - balanceOf[receiver],
                                  assets, totalSupply + 1, totalAssets + 1)
                     /\ o.totalSupply - totalSupply
                          = o.balanceOf[receiver] - balanceOf[receiver]
                     /\ \A h \in Holders \ {receiver} : o.balanceOf[h] = balanceOf[h]
                     /\ o.allowance = allowance

\* A deposit into a pool worth more than its shares minted fewer shares than
\* the assets deposited.
C13_Witness ==
    /\ last.op = "deposit" /\ last.res = "ok"
    /\ last.burned < last.req
    /\ totalSupply > 0
    /\ tokenBal[VAULT] >= last.req

\* C14: in every state where totalSupply equals totalAssets(), the empty pool
\* included, a deposit of A assets mints exactly A shares and leaves the pool at
\* par, and a withdraw of A assets that is delivered in full, the adapters being
\* IdleStrategy instances, burns exactly A shares.
C14_ParConversion ==
    (Committed /\ totalAssets # REVERT /\ totalSupply = totalAssets) =>
        /\ ~paused =>
              \A caller \in Holders, receiver \in Holders, assets \in 1..MaxAssets :
                  LET o == deposit(paused, caller, assets, receiver)
                  IN  /\ o.res = "ok"
                      /\ o.balanceOf[receiver] = balanceOf[receiver] + assets
                      /\ o.totalSupply = TotalAssetsOn(strategies, o.bal, down)
        /\ HonestRegistry =>
              \A h \in Holders, assets \in 1..MaxAssets :
                  LET o == withdraw(paused, h, assets, "u1", h, "honest")
                  IN  (o.res = "ok" /\ o.delivered = assets) =>
                          /\ o.burned = assets
                          /\ o.balanceOf[h] = balanceOf[h] - assets
                          /\ o.totalSupply = TotalAssetsOn(strategies, o.bal, down)

\* A pool at par, built by deposits, paid a withdraw in full and burned as many
\* shares as assets, staying at par with shares left.
C14_Witness ==
    /\ last.op = "withdraw" /\ last.res = "ok"
    /\ last.delivered = last.req /\ last.burned = last.req
    /\ totalSupply = totalAssets
    /\ totalSupply > 0

\* The last call was a successful deposit, by a holder to itself.
JustDeposited == last.op = "deposit" /\ last.res = "ok" /\ last.caller = last.owner

\* What the depositor gets by redeeming now all the shares the deposit minted
\* (last.burned holds them): nothing when none was minted, redeem(0) being
\* refused.
TripReturn ==
    IF last.burned = 0 THEN 0
    ELSE LET o == redeem(paused, last.owner, last.burned, last.owner, last.owner, "honest")
         IN  IF o.res = "ok" THEN o.delivered ELSE 0

\* The value of one share in the present pool, rounded up.
SharePrice == MulDivCeil(1, totalAssets + 1, totalSupply + 1)

\* C15 (as stated): a holder who deposits A > 0 and at once redeems the shares
\* the deposit minted, every token being idle, receives R with A - 1 <= R <= A.
C15_RoundTripWithinOne ==
    (JustDeposited /\ last.burned > 0) =>
        (last.req - 1 <= TripReturn /\ TripReturn <= last.req)

\* C15 (amended): the holder receives R <= A, and R = A when the pool is at par
\* (totalSupply = totalAssets()); in general A - R is at most the value of one
\* share, which exceeds one token once transfers to the vault have raised it.
C15_RoundTripWithinSharePrice ==
    JustDeposited =>
        /\ TripReturn <= last.req
        /\ last.req - TripReturn <= SharePrice
        /\ totalSupply = totalAssets => TripReturn = last.req

\* A deposit minted shares whose immediate redemption returns at least two
\* tokens less than the deposit.
C15_Witness ==
    /\ JustDeposited /\ last.burned > 0
    /\ TripReturn < last.req - 1

\* C16: cap enforcement. An authorized caller's rebalance, with the vault not
\* paused, both adapters registered and distinct, a positive amount and a
\* source that holds at least the amount, fails with ExceedsAllocationCap
\* whenever the destination's holdings plus the amount exceed its cap; a
\* failed call changes nothing (C12_Atomicity).
C16_CapEnforcement ==
    (Committed /\ ~paused) =>
        \A c \in Callers, f \in IdleAdapters, t \in IdleAdapters, x \in 1..MaxAssets :
            ( /\ onlyOperator(c)
              /\ isStrategy[f] /\ isStrategy[t] /\ f # t
              /\ tokenBal[f] >= x
              /\ tokenBal[t] + x > strategyCap[t] )
            => rebalance(paused, c, f, t, x, "honest").res = "ExceedsAllocationCap"

\* A rebalance has been refused for the cap of a destination that has a
\* positive cap and holds less than it.
C16_Witness ==
    /\ last.op = "rebalance" /\ last.res = "ExceedsAllocationCap"
    /\ \E t \in IdleAdapters :
          /\ isStrategy[t] /\ strategyCap[t] > 0 /\ tokenBal[t] < strategyCap[t]
          /\ \E f \in IdleAdapters \ {t} : isStrategy[f] /\ tokenBal[f] > strategyCap[t]

\* C17: cap safety. Right after every successful rebalance in which the source
\* released at most the amount asked, whatever else the adapters did, the
\* destination holds no more than its cap.
C17_CapSafety ==
    Committed =>
        \A c \in {OWNER, "u1"}, f \in Adapters, t \in Adapters, x \in Amounts :
            \A beh \in RebalanceBehaviours(f, t) :
                LET o == rebalance(paused, c, f, t, x, beh)
                IN  (o.res = "ok" /\ o.withdrawn <= x) => o.bal[t] <= strategyCap[t]

\* A rebalance has succeeded into a destination that it filled to a cap below
\* MaxAssets, or would have filled had the source released all that was asked.
C17_Witness ==
    /\ last.op = "rebalance" /\ last.res = "ok" /\ last.delivered > 0
    /\ \E t \in SeqToSet(strategies) :
          /\ strategyCap[t] < MaxAssets
          /\ tokenBal[t] >= last.delivered
          /\ tokenBal[t] + (last.req - last.delivered) = strategyCap[t]

\* C18: a successful rebalance between two registered IdleStrategy adapters
\* takes exactly the amount out of the source and puts exactly the amount into
\* the destination, and leaves totalAssets() as it was.
C18_ExactMove ==
    Committed =>
        \A c \in {OWNER, "u1"}, f \in IdleAdapters, t \in IdleAdapters, x \in Amounts :
            LET o == rebalance(paused, c, f, t, x, "honest")
            IN  o.res = "ok" =>
                    /\ o.withdrawn = x
                    /\ o.bal[f] = tokenBal[f] - x
                    /\ o.bal[t] = tokenBal[t] + x
                    /\ TotalAssetsOn(strategies, o.bal, down) = totalAssets

\* Part of what one IdleStrategy adapter held has been moved to the other: both
\* hold tokens after a successful rebalance of more than one token.
C18_Witness ==
    /\ last.op = "rebalance" /\ last.res = "ok" /\ last.req > 1
    /\ last.delivered = last.req
    /\ strategies = <<"s1", "s2">>
    /\ tokenBal["s1"] > 0 /\ tokenBal["s2"] > 0

\* The source f, asked for x by a rebalance that passes every check made
\* before the adapters are called, releases to the vault less than x and
\* reports what it released.
ReleasesShort(f, t, x, beh) ==
    LET w == AdapterWithdraw(f, x, tokenBal, beh)
    IN  /\ isStrategy[f] /\ isStrategy[t] /\ f # t
        /\ down = {}
        /\ tokenBal[f] >= x
        /\ ~ExceedsCap(tokenBal[t], x, strategyCap[t])
        /\ ~w.rev /\ w.ret < x
        /\ w.bal = [tokenBal EXCEPT ![f] = @ - w.ret, ![VAULT] = @ + w.ret]

\* C19: rebalance slippage is not an error. When the source releases r with
\* 0 <= r < amount, the rebalance succeeds, records the slippage and moves
\* exactly r into the destination.
C19_SlippageNotAnError ==
    (Committed /\ ~paused) =>
        \A f \in Adapters, t \in Adapters, x \in 1..MaxAssets, beh \in Behaviours :
            ReleasesShort(f, t, x, beh) =>
                LET r == AdapterWithdraw(f, x, tokenBal, beh).ret
                    o == rebalance(paused, OWNER, f, t, x, beh)
                IN  /\ o.res = "ok"
                    /\ o.slippage
                    /\ o.bal[t] = tokenBal[t] + r

\* The same for a release of 0 < r < amount.
C19_PositiveSlippage ==
    (Committed /\ ~paused) =>
        \A f \in Adapters, t \in Adapters, x \in 1..MaxAssets, beh \in Behaviours :
            (ReleasesShort(f, t, x, beh) /\ AdapterWithdraw(f, x, tokenBal, beh).ret > 0) =>
                LET r == AdapterWithdraw(f, x, tokenBal, beh).ret
                    o == rebalance(paused, OWNER, f, t, x, beh)
                IN  /\ o.res = "ok"
                    /\ o.slippage
                    /\ o.bal[t] = tokenBal[t] + r

\* A rebalance has succeeded with less released than asked.
C19_Witness ==
    /\ last.op = "rebalance" /\ last.res = "ok"
    /\ 0 < last.delivered /\ last.delivered < last.req

\* The adapters keep to their interface in a rebalance from f to t: the source
\* reports what it released, in full or short of the amount, and the
\* destination takes what it is given.
KeepsInterface(f, t, beh) == beh = "honest" \/ (beh = "short" /\ t \in IdleAdapters)

\* What a rebalance from f to t with outcome o leaves alone among the tokens:
\* the idle balance and every adapter other than f and t.
TokensFramed(f, t, o) ==
    /\ o.bal[VAULT] = tokenBal[VAULT]
    /\ \A a \in Adapters \ {f, t} : o.bal[a] = tokenBal[a]

\* C20: rebalance frame. A rebalance, successful or not, changes no holder's
\* shares, not the total of shares, the registry, the caps, the operator or
\* the pause flag; with adapters that keep to their interface it changes
\* neither the idle balance nor the holdings of any adapter other than the
\* source and the destination. The rebalances of the specification are honest;
\* the short releases are computed in the states a rebalance succeeds from,
\* which are the states they succeed from.
C20_RebalanceFrame ==
    [][ last'.op = "rebalance" =>
            /\ UNCHANGED <<balanceOf, totalSupply, allowance, strategies, isStrategy,
                           strategyCap, operator, paused>>
            /\ tokenBal'[VAULT] = tokenBal[VAULT]
            /\ Cardinality({a \in Adapters : tokenBal'[a] # tokenBal[a]}) \in {0, 2}
            /\ last'.res = "ok" =>
                  \A f \in Adapters, t \in Adapters, x \in Amounts,
                     beh \in {"honest", "short"} :
                      LET o == rebalance(paused, last'.caller, f, t, x, beh)
                      IN  (o.res = "ok" /\ KeepsInterface(f, t, beh)) =>
                              TokensFramed(f, t, o)
      ]_vars

\* A rebalance has succeeded in a vault with shares issued, an idle balance and
\* three registered adapters, two of which hold tokens.
C20_Witness ==
    /\ last.op = "rebalance" /\ last.res = "ok"
    /\ Len(strategies) = 3
    /\ totalSupply > 0 /\ tokenBal[VAULT] > 0
    /\ Cardinality({a \in Adapters : tokenBal[a] > 0}) = 2

\* The calls reserved to the owner, and the vault state they administer.
OwnerOps == {"addStrategy", "removeStrategy", "updateStrategyCap", "setOperator", "unpause"}
adminVars == <<strategies, isStrategy, strategyCap, operator>>

\* Every call of an owner function by c is refused.
RefusedAsNotOwner(c) ==
    /\ \A a \in AdminAdapters, cap \in CapValues :
          /\ addStrategy(c, a, cap).res = "NotOwner"
          /\ removeStrategy(c, a).res = "NotOwner"
          /\ updateStrategyCap(c, a, cap).res = "NotOwner"
    /\ \A n \in Callers \cup {NULL} : setOperator(c, n).res = "NotOwner"
    /\ unpause(paused, c).res = "NotOwner"

\* C21: owner-only administration. addStrategy, removeStrategy,
\* updateStrategyCap, setOperator and unpause are refused for every caller
\* other than the owner, the operator included when it is not the owner, and
\* a refused call changes nothing; the registry, the caps and the operator
\* change, and the vault leaves the paused state, only in a call by the owner.
C21_OwnerOnly ==
    /\ [](Committed => \A c \in Callers \ {OWNER} : RefusedAsNotOwner(c))
    /\ [][ /\ (adminVars' # adminVars \/ (paused /\ ~paused')) =>
                 (last'.op \in OwnerOps /\ last'.res = "ok" /\ last'.caller = OWNER)
           /\ (last'.op \in OwnerOps /\ last'.res # "ok") => UNCHANGED baseVars
         ]_vars

\* The operator is not the owner, the vault is paused, and an unpause has
\* been refused for its caller.
C21_Witness ==
    /\ last.op = "unpause" /\ last.res = "NotOwner"
    /\ operator = "op" /\ paused

\* c is neither the operator nor the owner.
Outsider(c) == c # operator /\ c # OWNER

\* C22: two-role pause authority. pause and rebalance are refused with
\* NotOperator for every caller that is neither the operator nor the owner,
\* and succeed only for those two; a paused vault becomes active only in an
\* unpause by the owner, so an operator that is not the owner can pause and
\* cannot unpause.
C22_PauseAuthority ==
    /\ [](Committed =>
            /\ \A c \in Callers :
                  Outsider(c) =>
                      /\ pause(paused, c).res = "NotOperator"
                      /\ \A f \in IdleAdapters, t \in IdleAdapters, x \in Amounts :
                            rebalance(paused, c, f, t, x, "honest").res = "NotOperator"
            /\ operator # OWNER =>
                  /\ ~paused => pause(paused, operator).res = "ok"
                  /\ unpause(TRUE, operator).res = "NotOwner")
    /\ [][ /\ (last'.op \in {"pause", "rebalance"} /\ last'.res = "ok") =>
                 last'.caller \in {operator, OWNER}
           /\ (~paused /\ paused') => last'.op = "pause"
           /\ (paused /\ ~paused') => (last'.op = "unpause" /\ last'.caller = OWNER)
         ]_vars

\* An operator that is not the owner has paused the vault.
C22_Witness ==
    /\ last.op = "pause" /\ last.res = "ok" /\ last.caller = "op"
    /\ operator = "op" /\ paused

\* C23, as stated: pause by the operator or the owner and unpause by the owner
\* succeed from either state.
C23_PauseTotal ==
    Committed =>
        /\ \A c \in {operator, OWNER} : pause(paused, c).res = "ok"
        /\ unpause(paused, OWNER).res = "ok"

\* C23, amended: pause by the operator or the owner succeeds on the active
\* vault and leaves it paused, and is refused with Paused on the paused vault;
\* unpause by the owner succeeds on the paused vault and leaves it active, and
\* is refused with NotPaused on the active vault. Either way the vault is in
\* the state the call asked for when the call returns.
C23_PauseTransitions ==
    Committed =>
        /\ \A c \in {operator, OWNER} :
              LET o == pause(paused, c)
              IN  IF paused THEN o.res = "Paused" ELSE (o.res = "ok" /\ o.paused)
        /\ LET o == unpause(paused, OWNER)
           IN  IF paused THEN (o.res = "ok" /\ ~o.paused) ELSE o.res = "NotPaused"

\* A pause has been refused because the vault is paused.
C23_Witness ==
    /\ last.op = "pause" /\ last.res = "Paused"
    /\ paused

\* a is in the array the cascade and totalAssets() iterate.
Registered(a) == a \in SeqToSet(strategies)

\* C24: addStrategy(adapter, cap) by the owner fails with
\* StrategyAlreadyExists if the adapter is registered, else with
\* ZeroStrategyCap if cap = 0, else with AssetMismatch if the adapter holds
\* another asset; otherwise it succeeds, puts the adapter at the end of the
\* array, marks it registered with that cap and leaves the other adapters'
\* entries as they were. A failed call changes nothing (C12_Atomicity).
C24_AddStrategy ==
    Committed =>
        \A a \in IdleAdapters \cup ForeignAdapters, cap \in CapValues :
            LET o == addStrategy(OWNER, a, cap)
            IN  IF Registered(a) THEN o.res = "StrategyAlreadyExists"
                ELSE IF cap = 0 THEN o.res = "ZeroStrategyCap"
                ELSE IF a \in ForeignAdapters THEN o.res = "AssetMismatch"
                ELSE /\ o.res = "ok"
                     /\ o.strategies = Append(strategies, a)
                     /\ o.isStrategy[a] /\ o.strategyCap[a] = cap
                     /\ \A b \in Adapters \ {a} :
                           /\ o.isStrategy[b] = isStrategy[b]
                           /\ o.strategyCap[b] = strategyCap[b]

\* An adapter has been added behind another one, with a cap of one token.
C24_Witness ==
    /\ last.op = "addStrategy" /\ last.res = "ok"
    /\ Len(strategies) = 2
    /\ isStrategy[strategies[2]] /\ strategyCap[strategies[2]] = 1
    /\ regOrder = strategies

\* C25: custodied value cannot be orphaned. removeStrategy by the owner fails
\* with InvalidStrategy for an adapter that is not registered and with
\* StrategyNotEmpty for a registered adapter that holds anything; it succeeds
\* for a registered adapter that holds zero, and takes exactly that adapter
\* out of the registry; totalAssets() is the same before and after every
\* removeStrategy call.
C25_NoOrphanedValue ==
    /\ [](Committed =>
            \A a \in Adapters \cup ForeignAdapters :
                LET o == removeStrategy(OWNER, a)
                IN  IF ~Registered(a) THEN o.res = "InvalidStrategy"
                    ELSE IF tokenBal[a] # 0 THEN o.res = "StrategyNotEmpty"
                    ELSE /\ o.res = "ok"
                         /\ SeqToSet(o.strategies) = SeqToSet(strategies) \ {a}
                         /\ Len(o.strategies) = Len(strategies) - 1
                         /\ ~o.isStrategy[a]
                         /\ TotalAssetsOn(o.strategies, tokenBal, down) = totalAssets)
    /\ [][last'.op = "removeStrategy" =>
              (totalAssetsAfter = totalAssets /\ tokenBal' = tokenBal)]_vars

\* An empty adapter has been removed from a registry whose remaining adapters
\* hold capital.
C25_Witness ==
    /\ last.op = "removeStrategy" /\ last.res = "ok"
    /\ Len(strategies) = 2
    /\ \A a \in SeqToSet(strategies) : tokenBal[a] > 0

\* A rebalance of x from f to t by c gets as far as the cap check.
ReachesCapCheck(c, f, t, x) ==
    /\ ~Outsider(c) /\ ~paused
    /\ Registered(f) /\ Registered(t) /\ f # t
    /\ tokenBal[f] >= x

\* C26: updateStrategyCap on a registered adapter sets the cap to newCap,
\* whatever the adapter holds, and moves no capital. While the adapter's
\* holdings plus amount exceed its cap no rebalance of amount > 0 into it
\* succeeds, and the refusal is ExceedsAllocationCap for every call that gets
\* as far as the cap check; once holdings plus amount are within the cap the
\* call is not refused for the cap. A withdraw that needs an adapter holding
\* more than its cap takes from it what it needs, and fails only if the owner
\* lacks the shares.
C26_UpdateCap ==
    /\ [](Committed =>
            \A t \in IdleAdapters :
                Registered(t) =>
                    /\ \A n \in CapValues :
                          LET o == updateStrategyCap(OWNER, t, n)
                          IN  /\ o.res = "ok" /\ o.strategyCap[t] = n
                              /\ \A b \in Adapters \ {t} : o.strategyCap[b] = strategyCap[b]
                    /\ \A c \in Callers, f \in IdleAdapters, x \in 1..MaxAssets :
                          LET o == rebalance(paused, c, f, t, x, "honest")
                          IN  IF tokenBal[t] + x > strategyCap[t]
                              THEN /\ o.res # "ok"
                                   /\ ReachesCapCheck(c, f, t, x) =>
                                         o.res = "ExceedsAllocationCap"
                              ELSE o.res # "ExceedsAllocationCap"
                    /\ \A x \in 1..MaxAssets :
                          ( /\ tokenBal[t] > strategyCap[t]
                            /\ x > tokenBal[VAULT]
                            /\ \A b \in Adapters \ {t} : tokenBal[b] = 0 )
                          => LET o == withdraw(paused, "u1", x, "u1", "u1", "honest")
                                 fromT == Min(x - tokenBal[VAULT], tokenBal[t])
                             IN  /\ o.res \in {"ok", "InsufficientShares"}
                                 /\ o.res = "ok" =>
                                       /\ o.released = fromT
                                       /\ o.bal[t] = tokenBal[t] - fromT)
    /\ [][(last'.op = "updateStrategyCap" /\ last'.res = "ok") =>
              /\ UNCHANGED <<tokenBal, balanceOf, totalSupply, strategies, isStrategy>>
              /\ Cardinality({a \in Adapters : strategyCap'[a] # strategyCap[a]}) <= 1
         ]_vars

\* The cap of a registered adapter has been set to a positive value below
\* what the adapter holds, in a vault whose holder has shares.
C26_Witness ==
    /\ last.op = "updateStrategyCap" /\ last.res = "ok"
    /\ balanceOf["u1"] > 0
    /\ \E t \in IdleAdapters :
          /\ Registered(t) /\ 0 < strategyCap[t] /\ strategyCap[t] < tokenBal[t]
          /\ \E x \in 1..MaxAssets :
                LET o == withdraw(paused, "u1", x, "u1", "u1", "honest")
                IN  o.res = "ok" /\ o.bal[t] < tokenBal[t]

\* C27: re-entrancy guard. While a deposit, mint, withdraw, redeem or
\* rebalance is running, every call of one of these five on the same vault is
\* refused, whoever makes it and whether or not the vault is paused; the
\* guard is set exactly while a guarded function is running, so after the
\* function ends, with its effects or reverted, no call is refused by the
\* guard.
C27_ReentrancyGuard ==
    /\ status = "ENTERED" <=> last.res = "entered"
    /\ status = "ENTERED" =>
          /\ \A op \in GuardedOps, c \in Callers \cup Adapters :
                Modifiers(op, status, paused, c) # "ok"
          /\ \A n \in last.nested : n.res # "ok"
    /\ status # "ENTERED" =>
          /\ status = "NOT_ENTERED"
          /\ \A op \in GuardedOps, c \in Callers \cup Adapters :
                Modifiers(op, status, paused, c) # "ReentrancyGuardReentrantCall"

\* While a withdraw is running, the adapter that is the operator has called
\* rebalance and has been refused by the guard.
C27_Witness ==
    /\ last.op = "withdraw" /\ last.res = "entered"
    /\ operator = "s3"
    /\ [op |-> "rebalance", caller |-> "s3", res |-> "ReentrancyGuardReentrantCall"]
          \in last.nested

\* The sum of the balances b of the adapters in the set S.
RECURSIVE SumOver(_, _)
SumOver(S, b) ==
    IF S = {} THEN 0
    ELSE LET a == CHOOSE x \in S : TRUE IN b[a] + SumOver(S \ {a}, b)

\* C28: conservation. After every operation totalAssets() is the idle balance
\* plus the balances of exactly the registered adapters: the array it
\* iterates holds each adapter marked registered once and no other.
C28_Conservation ==
    /\ Len(strategies) = Cardinality(SeqToSet(strategies))
    /\ SeqToSet(strategies) = {a \in Adapters : isStrategy[a]}
    /\ totalAssets = tokenBal[VAULT] + SumOver({a \in Adapters : isStrategy[a]}, tokenBal)

\* An adapter has been removed from the middle of the array, and the vault
\* holds an idle balance and capital in a registered adapter.
C28_Witness ==
    /\ last.op = "removeStrategy" /\ last.res = "ok"
    /\ Len(strategies) = 2 /\ strategies # regOrder
    /\ tokenBal[VAULT] > 0 /\ totalAssets > tokenBal[VAULT]

\* What a delegated exit by c leaves of owner o's allowances when it burns
\* shs shares: the allowance to c less shs, as the claim states it.
SpentExactly(o, c, shs) == [allowance EXCEPT ![o][c] = @ - shs]
\* The same, with the unlimited allowance left as it is.
SpentUnlessUnlimited(o, c, shs) ==
    [allowance EXCEPT ![o][c] = IF @ = MaxUint256 THEN @ ELSE @ - shs]

\* The exit d of a delegate c set against the same exit self by the owner o:
\* where the owner's succeeds, the delegate's succeeds exactly when the
\* allowance covers the shares the owner's burns, burns and pays the same, and
\* leaves the allowances left(o, c, shares); else it is refused for the
\* allowance. A delegate's exit never succeeds above the allowance.
DelegateFollows(d, self, o, c, left(_, _, _)) ==
    /\ d.res = "ok" => allowance[o][c] >= d.burned
    /\ self.res = "ok" =>
          IF allowance[o][c] >= self.burned
          THEN /\ d.res = "ok"
               /\ d.burned = self.burned /\ d.delivered = self.delivered
               /\ d.bal = self.bal /\ d.balanceOf = self.balanceOf
               /\ d.allowance = left(o, c, d.burned)
          ELSE d.res = "AllowanceExceeded"

DelegatedExits(left(_, _, _)) ==
    Committed =>
        \A o \in Holders : \A c \in Holders \ {o} : \A beh \in CascadeBehaviours :
            /\ \A x \in 1..MaxAssets :
                  LET self == withdraw(paused, o, x, "u1", o, beh)
                  IN  /\ DelegateFollows(withdraw(paused, c, x, "u1", o, beh), self, o, c, left)
                      /\ self.res = "ok" => self.allowance = allowance
            /\ \A x \in 1..MaxShares :
                  LET self == redeem(paused, o, x, "u1", o, beh)
                      d == redeem(paused, c, x, "u1", o, beh)
                  IN  /\ DelegateFollows(d, self, o, c, left)
                      /\ d.res = "ok" => d.burned = x
                      /\ self.res = "ok" => self.allowance = allowance

\* An exit refused for the allowance changes nothing.
RefusalKeepsAll ==
    [][last'.op \in {"withdraw", "redeem"} /\ last'.res = "AllowanceExceeded"
          => UNCHANGED baseVars]_vars

\* C29 as stated: every successful delegated exit reduces the allowance by
\* exactly the shares burned. Violated by a delegate with the unlimited allowance.
C29_AllowanceReduced == [](DelegatedExits(SpentExactly)) /\ RefusalKeepsAll

\* C29: allowance on delegated exit. A delegate's withdraw or redeem succeeds
\* only if the owner's allowance to it covers the shares burned (for withdraw
\* those recomputed from the delivered amount, for redeem the requested
\* shares), and then reduces the allowance by the shares burned unless it is
\* type(uint256).max, which stays; short of allowance, an exit the owner could
\* make is refused with AllowanceExceeded and changes nothing; the owner's own
\* exit needs and spends no allowance.
C29_AllowanceOnDelegatedExit == [](DelegatedExits(SpentUnlessUnlimited)) /\ RefusalKeepsAll

\* A delegate has withdrawn less than it asked for, and the shares of the
\* delivered amount have used up the allowance it had.
C29_Witness ==
    /\ last.op = "withdraw" /\ last.res = "ok"
    /\ last.caller = "u2" /\ last.owner = "u1"
    /\ last.burned > 0 /\ last.delivered < last.req
    /\ allowance["u1"]["u2"] = 0

\* C30: maxWithdraw(holder) is the smaller of the holder's shares converted to
\* assets, rounded down, and the idle balance plus the balances of the
\* registered adapters (and reverts where one of those cannot be read);
\* maxDeposit and maxMint are 0 when the vault is paused and type(uint256).max
\* otherwise, 0 exactly when deposit and mint are refused for the pause.
C30_MaxViews ==
    /\ \A h \in Holders :
          IF \E a \in Adapters : isStrategy[a] /\ a \in down
          THEN maxWithdraw(h) = REVERT
          ELSE maxWithdraw(h) =
                  Min(MulDivFloor(balanceOf[h], totalAssets + 1, totalSupply + 1),
                      tokenBal[VAULT] + SumOver({a \in Adapters : isStrategy[a]}, tokenBal))
    /\ maxDeposit(paused) = (IF paused THEN 0 ELSE MaxUint256)
    /\ maxMint(paused) = (IF paused THEN 0 ELSE MaxUint256)
    /\ Committed =>
          \A c \in Holders : \A x \in 1..MaxAssets :
              /\ maxDeposit(paused) = 0 <=> deposit(paused, c, x, c).res = "Paused"
              /\ maxMint(paused) = 0 <=> mint(paused, c, x, c).res = "Paused"

\* The vault is paused, and a holder's shares are worth a whole number of
\* tokens only after rounding down, which the liquidity covers.
C30_Witness ==
    /\ paused /\ Committed
    /\ maxDeposit(paused) = 0
    /\ maxWithdraw("u1") > 0
    /\ (balanceOf["u1"] * (totalAssets + 1)) % (totalSupply + 1) # 0
    /\ maxWithdraw("u1") < tokenBal[VAULT] + tokenBal["s1"] + tokenBal["s2"] + tokenBal["s3"]

C32_AdapterRefusals ==
    /\ [](\A a \in IdleAdapters : \A x \in 0..MaxAssets :
            /\ \A c \in StrategyCallers \ {VAULT} :
                  /\ strategyDeposit(c, a, x, tokenBal).res = "OnlyVault"
                  /\ strategyWithdraw(c, a, x, tokenBal).res = "OnlyVault"
            /\ strategyDeposit(VAULT, a, 0, tokenBal).res = "ZeroAmount"
            /\ strategyWithdraw(VAULT, a, 0, tokenBal).res = "ZeroAmount"
            /\ (x > 0 /\ x <= tokenBal[VAULT]) => strategyDeposit(VAULT, a, x, tokenBal).res = "ok")
    /\ [][last'.op \in {"deposit", "withdraw"} /\ last'.res # "ok"
             => /\ tokenBal' = tokenBal
                /\ last'.accepted = last.accepted /\ last'.released = last.released]_vars

\* A caller other than the vault has been refused the withdrawal of what a
\* funded adapter holds.
C32_Witness ==
    /\ last.op = "withdraw" /\ last.res = "OnlyVault" /\ last.caller = "u1"
    /\ last.adapter = "s1" /\ last.req > 0 /\ last.req <= tokenBal["s1"]

\* After the victim's deposit of last.req: what the attacker has donated.
Donated == tokenBal[VAULT] - 1 - last.req

\* C33: first-deposit attack. On a pool that had no shares, after the attacker's
\* deposit of 1, a donation D >= 0 to the idle balance and the victim's deposit
\* V > 0, the attacker's shares redeem for no more than 1 + D: by the view, by
\* the outcome of redeem for any part of the shares, and in the redeem made.
C33_FirstDepositAttack ==
    /\ []((last.op = "deposit" /\ last.caller = "u2") =>
            /\ ConvertToAssetsFloor(balanceOf["u1"], totalAssets, totalSupply) <= 1 + Donated
            /\ maxWithdraw("u1") <= 1 + Donated
            /\ \A shs \in 1..balanceOf["u1"] :
                  LET o == redeem(paused, "u1", shs, "u1", "u1", "honest")
                  IN  o.res = "ok" /\ o.delivered <= 1 + Donated)
    /\ [][last'.op = "redeem" => last'.delivered <= 1 + Donated]_vars

\* The attacker has donated, the victim's deposit has earned it no share, and
\* the attacker has redeemed its share for exactly its outlay.
C33_Witness ==
    /\ last.op = "redeem" /\ last.caller = "u1"
    /\ totalSupply = 0 /\ balanceOf["u2"] = 0
    /\ last.delivered > 1 /\ tokenBal[VAULT] > 0

\* C34: setOperator by the owner is refused with InvalidOperator for the zero
\* address and otherwise sets the operator to its argument; the operator, set
\* to the deployer by the constructor, is never the zero address.
C34_OperatorNeverNull ==
    /\ [](/\ operator # NULL
          /\ setOperator(OWNER, NULL).res = "InvalidOperator"
          /\ \A n \in Callers \cup Adapters :
                /\ setOperator(OWNER, n).res = "ok"
                /\ setOperator(OWNER, n).operator = n)
    /\ [][last'.op = "setOperator" =>
             IF last'.res = "ok"
             THEN operator' # NULL /\ UNCHANGED <<paused, ledgerVars, registryVars>>
             ELSE UNCHANGED baseVars]_vars

\* The owner has named another operator, and its next call, with the zero
\* address, has been refused.
C34_Witness ==
    /\ last.op = "setOperator" /\ last.res = "InvalidOperator"
    /\ operator = "op"

\* The vault's virtual-share offset: 10 ** _decimalsOffset(), with the offset 0
\* of ERC4626 that the vault does not override.
VirtualOffset == 1

\* The share price does not fall over the step: with T, S before and T', S' after.
PriceHolds == (totalAssetsAfter + 1) * (totalSupply + VirtualOffset)
                  >= (totalAssets + 1) * (totalSupply' + VirtualOffset)

\* No adapter loses a token over the step: the tokens of the vault and the
\* adapters change by what the call takes in or delivers.
NoAdapterLoss ==
    TokensHeld(tokenBal') =
        TokensHeld(tokenBal) + (IF last'.op \in {"deposit", "mint"}
                                THEN last'.delivered ELSE 0 - last'.delivered)

\* C35: rounding protects the pool. Over every successful deposit, mint,
\* withdraw and redeem, partial ones included, in which no adapter loses
\* tokens, the share price does not fall.
C35_PriceNeverFalls ==
    [][(/\ last'.op \in {"deposit", "mint", "withdraw", "redeem"}
        /\ last'.res = "ok"
        /\ NoAdapterLoss) => PriceHolds]_vars

\* A withdraw or redeem has delivered less than was asked and left shares
\* and tokens behind, at a price that is not a whole number.
C35_Witness ==
    /\ last.op \in {"withdraw", "redeem"} /\ last.res = "ok"
    /\ last.delivered < last.want
    /\ totalSupply > 0 /\ totalAssets > 0
    /\ (totalAssets + 1) % (totalSupply + 1) # 0

\* C36: no over-claim. A successful withdraw or redeem delivers no more than
\* the shares it burns convert to, rounded down, on the pool before the call,
\* and burns no more than the owner held; a holder without shares gets nothing
\* out of any withdraw or redeem.
C36_NoOverClaim ==
    /\ [](Committed =>
            \A h \in Holders : \A beh \in CascadeBehaviours : \A x \in 1..MaxAssets :
                balanceOf[h] = 0 =>
                    /\ withdraw(paused, h, x, h, h, beh).res = "ok"
                          => withdraw(paused, h, x, h, h, beh).delivered = 0
                    /\ redeem(paused, h, x, h, h, beh).res # "ok")
    /\ [][(last'.op \in {"withdraw", "redeem"} /\ last'.res = "ok") =>
             /\ last'.delivered <= ConvertToAssetsFloor(last'.burned, totalAssets, totalSupply)
             /\ last'.burned <= balanceOf[last'.owner]
             /\ balanceOf'[last'.owner] = balanceOf[last'.owner] - last'.burned]_vars

\* A withdraw at a price above 1 has paid out more tokens than it burned
\* shares, out of an adapter.
C36_Witness ==
    /\ last.op = "withdraw" /\ last.res = "ok"
    /\ last.delivered > last.burned /\ last.burned > 0
    /\ last.released > 0

\* The place of a registered adapter in the array.
PositionOf(a) == CHOOSE i \in 1..Len(strategies) : strategies[i] = a

\* The tokens that have left adapter a in the cascade c.
GoneFrom(a, c) == tokenBal[a] - c.bal[a]

\* The i-th adapter asked in the cascade c is to be found drained when a later
\* one is asked: if its withdraw did not revert, as the claim states it.
DrainedUnlessFailed(c, i) == c.asked[i] \notin SeqToSet(c.failed)
\* The same, if its withdraw did not revert and it gave up the amount it was
\* asked for.
DrainedIfReleasedInFull(c, i) ==
    c.asked[i] \notin SeqToSet(c.failed) /\ GoneFrom(c.asked[i], c) >= c.amounts[i]

\* The cascade c for a shortfall short did not over-pull: the vault received
\* at most the shortfall; adapters were asked in the order of the array, each
\* for at most the shortfall and its balance, none passed over that holds and
\* reports tokens; and an earlier adapter that mustDrain is at zero.
NoOverPull(c, short, mustDrain(_, _)) ==
    /\ c.remaining >= 0 /\ c.remaining <= short
    /\ c.bal[VAULT] - tokenBal[VAULT] <= short
    /\ Len(c.amounts) = Len(c.asked)
    /\ \A i \in 1..Len(c.asked) :
          /\ c.amounts[i] > 0
          /\ c.amounts[i] <= Min(short, tokenBal[c.asked[i]])
          /\ \A j \in 1..Len(c.asked) : i < j =>
                /\ PositionOf(c.asked[i]) < PositionOf(c.asked[j])
                /\ mustDrain(c, i) => c.bal[c.asked[i]] = 0
          /\ \A k \in 1..PositionOf(c.asked[i]) - 1 :
                \/ strategies[k] \in SeqToSet(c.asked)
                \/ strategies[k] \in down
                \/ tokenBal[strategies[k]] = 0
    /\ \A a \in Adapters : a \notin SeqToSet(c.asked) => c.bal[a] = tokenBal[a]

\* Every withdraw and redeem that succeeds in this state: with the idle balance
\* covering the amount no adapter is asked and none changes; otherwise its
\* cascade did not over-pull.
ExitsDoNotOverPull(mustDrain(_, _)) ==
    Committed =>
        \A h \in Holders : \A beh \in CascadeBehaviours :
            /\ \A x \in 1..MaxAssets :
                  LET o == withdraw(paused, h, x, h, h, beh)
                      short == x - tokenBal[VAULT]
                      c == WithdrawFromStrategies(short, strategies, tokenBal, down, beh)
                  IN  o.res = "ok" =>
                        IF short <= 0
                        THEN /\ o.asked = <<>> /\ o.released = 0
                             /\ \A a \in Adapters : o.bal[a] = tokenBal[a]
                        ELSE /\ o.asked = c.asked /\ o.released = short - c.remaining
                             /\ \A a \in Adapters : o.bal[a] = c.bal[a]
                             /\ NoOverPull(c, short, mustDrain)
            /\ \A x \in 1..MaxShares :
                  LET o == redeem(paused, h, x, h, h, beh)
                      short == o.want - tokenBal[VAULT]
                      c == WithdrawFromStrategies(short, strategies, tokenBal, down, beh)
                  IN  o.res = "ok" =>
                        IF short <= 0
                        THEN /\ o.asked = <<>> /\ o.released = 0
                             /\ \A a \in Adapters : o.bal[a] = tokenBal[a]
                        ELSE /\ o.asked = c.asked /\ o.released = short - c.remaining
                             /\ \A a \in Adapters : o.bal[a] = c.bal[a]
                             /\ NoOverPull(c, short, mustDrain)

RegisteredDown == \E a \in Adapters : isStrategy[a] /\ a \in down

\* What the idle balance and the adapters that answer can supply.
Suppliable ==
    tokenBal[VAULT] + SumOver({a \in Adapters : isStrategy[a] /\ a \notin down}, tokenBal)

\* C38: a registered adapter whose totalAssets() reverts is skipped by the
\* cascade and does not make withdraw or redeem fail: a holder's exit for
\* shares it has completes and delivers what the idle balance and the other
\* adapters can supply. Violated: previewWithdraw and previewRedeem read
\* totalAssets(), which reverts with the adapter.
C38_DownAdapterSkipped ==
    (Committed /\ RegisteredDown) =>
        \A h \in {g \in Holders : balanceOf[g] > 0} :
            /\ \A x \in 1..MaxAssets :
                  LET o == withdraw(paused, h, x, h, h, "honest")
                  IN  o.res \in {"ok", "InsufficientShares"}
                        /\ (o.res = "ok" => o.delivered = Min(x, Suppliable))
            /\ \A x \in 1..balanceOf[h] :
                  redeem(paused, h, x, h, h, "honest").res = "ok"

\* The cascade itself does skip the adapter: it records the failure, leaves
\* the adapter's balance alone and pulls what the others can supply.
C38_CascadeSkips ==
    (Committed /\ RegisteredDown) =>
        \A x \in 1..MaxAssets :
            LET c == WithdrawFromStrategies(x, strategies, tokenBal, down, "honest")
            IN  /\ ~c.panic
                /\ \A a \in down : c.bal[a] = tokenBal[a] /\ a \notin SeqToSet(c.asked)
                /\ x - c.remaining = Min(x, Suppliable - tokenBal[VAULT])

\* With a registered adapter's totalAssets() reverting, every withdraw and
\* redeem of a positive amount reverts.
C38_ExitsRevert ==
    (Committed /\ RegisteredDown) =>
        \A h \in Holders : \A x \in 1..MaxAssets : \A beh \in CascadeBehaviours :
            /\ withdraw(paused, h, x, h, h, beh).res \in {"AdapterReverted", "Panic"}
            /\ redeem(paused, h, x, h, h, beh).res = "AdapterReverted"

\* C39: registry consistency. The array holds no adapter twice, an adapter is
\* in the array exactly when isStrategy marks it, and the cap of every adapter
\* that is not registered, never added or removed since, is 0.
C39_RegistryConsistency ==
    /\ \A i, j \in 1..Len(strategies) : strategies[i] = strategies[j] => i = j
    /\ \A a \in Adapters : isStrategy[a] <=> (\E i \in 1..Len(strategies) : strategies[i] = a)
    /\ \A a \in Adapters : ~isStrategy[a] => strategyCap[a] = 0
    /\ \A i \in 1..Len(strategies) : strategies[i] \in Adapters

\* An adapter has been removed while another, with its cap, stays registered
\* and holds tokens.
C39_Witness ==
    /\ last.op = "removeStrategy" /\ last.res = "ok"
    /\ Len(strategies) = 1
    /\ strategyCap[strategies[1]] > 0 /\ tokenBal[strategies[1]] > 0

\* C40: every registered adapter has a cap above 0. Violated: updateStrategyCap
\* sets any cap, 0 included.
C40_RegisteredCapPositive ==
    \A a \in Adapters : isStrategy[a] => strategyCap[a] > 0

\* The caps of registered adapters are positive as long as updateStrategyCap
\* has not been given 0: addStrategy refuses a zero cap.
C40_AddRefusesZeroCap ==
    Committed =>
        \A a \in Adapters :
            /\ addStrategy(OWNER, a, 0).res # "ok"
            /\ isStrategy[a] => updateStrategyCap(OWNER, a, 0).res = "ok"

=============================================================================
